---------------------------- MODULE Spec2Model ----------------------------
(* A model of the InternApp client:                                         *)
(*   - the Session/Role Resolver (the useAuth hook behind AuthProvider),    *)
(*   - the section layouts, the landing screen and the root RouteGuard,     *)
(*   - the login and profile handlers that drive them,                      *)
(*   - the hosted auth backend as an external collaborator,                 *)
(*   - the application submission flow (useApply, JobDetailScreen),         *)
(*   - the employer's application status updates,                           *)
(*   - the applications list fetch (useApplications),                       *)
(*   - the company screens (CompanySetupScreen, EmployerProfileScreen),     *)
(*   - the backend tables profiles, applications and companies.             *)
(* Spec drives the auth and routing part, SubmitSpec the submission flow,   *)
(* ReviewSpec the status updates, FetchSpec the list fetch and CompanySpec  *)
(* the company screens; each leaves the other parts at rest.                *)
EXTENDS Integers, Sequences, FiniteSets, TLC

VARIABLES
    users,          \* backend: email -> role metadata stored at sign-up
    backendSession, \* backend/client cache: the persisted session (<<>> = none)
    session,        \* useAuth: useState<Session | null>
    loading,        \* useAuth: useState(true)
    error,          \* useAuth: useState<string | null>
    initPc,         \* useAuth.initializeAuth: "pending", "resolved", "reported"
                    \* or "failed"
    events,         \* session-change events emitted and not yet handled
    listened,       \* observer: the listener callback has run at least once
    calls,          \* signIn / signUp / signOut calls in flight
    path,           \* the router's current location
    navBy,          \* who issued the last navigation
    scenario,       \* observer: statuses seen while only the event stream acted
    mounted,        \* useAuth's effect is live: its cleanup has not run
    signOutDialog,  \* the student profile's 'Sign Out' dialog is open
    profiles,       \* backend table profiles: the user ids that have a row
    applications,   \* backend table applications: rows in insertion order
    companies,      \* backend table companies: rows in insertion order
    updatePolicy,   \* backend: the employers' update policy is installed
    detail,         \* JobDetailScreen instances with their useApply hook
    overlapped,     \* observer: two submissions have been in flight at once
    blindCheck,     \* observer: a submission passed a check whose read failed
    backs,          \* presses of the job detail screen's Back button
    updates,        \* status updates in flight
    lastUpdate,     \* observer: the status update settled last
    reloading,      \* EmployerApplicationsScreen: loading, set by a reload
    fetch,          \* useApplications: the hook's state and its request
    aborted,        \* the AbortSignal given to useApplications has fired
    setup,          \* CompanySetupScreen
    profileScreen,  \* EmployerProfileScreen
    profileHook,    \* useProfile: the hook's state and its loads in flight
    check,          \* useCheckApplication
    listScreen,     \* ApplicantsScreen or EmployerApplicationsScreen
    newJob,         \* NewJobScreen
    jobs            \* backend table jobs: rows in insertion order

authVars == <<users, backendSession, session, loading, error, initPc, events,
              listened, calls, path, navBy, scenario, mounted, signOutDialog>>

submitVars == <<profiles, detail, overlapped, blindCheck, backs>>

reviewVars == <<updatePolicy, updates, lastUpdate, reloading>>

fetchVars == <<fetch, aborted>>

companyVars == <<companies, setup, profileScreen>>

hookVars == <<profileHook, check>>

screenVars == <<listScreen, newJob, jobs>>

vars == <<authVars, submitVars, applications, reviewVars, fetchVars,
          companyVars, hookVars, screenVars>>

----------------------------------------------------------------------------
(* Bounds of the model.                                                     *)

MaxEvents == 1
MaxCalls == 1
MaxSubmits == 2     \* JobDetailScreen instances (devices or tabs) of the student
MaxApps == 2        \* rows of the applications table
MaxBacks == 1       \* presses of the job detail screen's Back button
MaxUpdates == 2     \* status updates in flight
MaxCompanies == 2   \* rows of the companies table
MaxLoads == 2       \* calls of loadApplications in flight at once
MaxJobs == 2        \* rows of the jobs table
MaxPicks == 1       \* calls of pickImages in flight at once
MaxImages == 1      \* images selected on the new-job form

----------------------------------------------------------------------------
(* Values.                                                                  *)

Null == "null"

\* user_metadata.role is "student", "employer" or, with no role key,
\* "undefined"; the backend's user table also marks an unused e-mail address
\* "unregistered".

Emails == {"stu@x", "norole@x", "new@x"}

\* A Session object: the user it belongs to and the user's metadata snapshot.
SessionOf(email, metaRole) ==
    <<[user |-> [email |-> email, user_metadata |-> [role |-> metaRole]]]>>

NoSession == <<>>

\* What a rejected backend call throws: an Error with a message, or a
\* non-Error value.
Thrown == { [isError |-> TRUE, message |-> "Invalid login credentials"],
            [isError |-> FALSE, message |-> ""] }

EventNames == {"INITIAL_SESSION", "SIGNED_IN", "SIGNED_OUT", "TOKEN_REFRESHED"}

\* The error a backend table call reports in its result: an instance of
\* Error or a plain object, depending on the client library's version.
DbErrors == { [isError |-> TRUE, message |-> "permission denied for table"],
              [isError |-> FALSE, message |-> "permission denied for table"] }

\* User ids: the student, the employer who owns the company of every job,
\* and another employer.
Student == "student-id"
Owner == "employer-id"
Outsider == "other-employer-id"

Jobs == {"job-1", "job-2"}

\* Row ids are positions in the table; NoId stands for a null id.
NoId == 0

ApplicationRow(job, student, st) ==
    [job_id |-> job, student_user_id |-> student, status |-> st]

CompanyRow(owner, name) ==
    [owner_user_id |-> owner, name |-> name, description |-> "We build."]

CompanyNames == {"Acme", "Apex"}

\* What is typed into a company form, and String.prototype.trim on it.
CompanyTexts == {"   ", "Apex"}
CompanyDescriptions == {"We build."}
Trim(t) == IF t = "   " THEN "" ELSE t

LoadNos == 1..MaxLoads

----------------------------------------------------------------------------
(* Routes.                                                                  *)

HomePath == "/"
StudentLogin == "/login/student"
EmployerLogin == "/login/employer"
LoginPaths == {StudentLogin, EmployerLogin}
StudentPaths == {"/student", "/student/profile"}
EmployerPaths == {"/employer", "/employer/profile"}
Paths == {HomePath} \cup LoginPaths \cup StudentPaths \cup EmployerPaths

\* The role a login page signs up.
PageRole(page) == IF page = StudentLogin THEN "student" ELSE "employer"

----------------------------------------------------------------------------
(* useAuth: derived state.                                                  *)

\* status: loading, else by whether a session is held.
StatusOf(l, s) ==
    IF l THEN "loading"
    ELSE IF s # NoSession THEN "authenticated"
    ELSE "unauthenticated"

status == StatusOf(loading, session)

\* user = session?.user || null
UserOf(s) == IF s # NoSession THEN <<s[1].user>> ELSE <<>>

user == UserOf(session)

\* Variant: the role is never read from the metadata.
RoleOf_neverRead(u) == Null

\* Variant: a user without role metadata is taken for a student.
RoleOf_defaultStudent(u) ==
    IF u = <<>> THEN Null
    ELSE IF u[1].user_metadata.role = "undefined" THEN "student"
    ELSE u[1].user_metadata.role

\* role = user?.user_metadata?.role || null
RoleOf(u) ==
    IF u = <<>> THEN Null
    ELSE IF u[1].user_metadata.role = "undefined" THEN Null
    ELSE u[1].user_metadata.role

role == RoleOf(user)

\* err instanceof Error ? err.message : fallback
ErrorText(err, fallback) == IF err.isError THEN err.message ELSE fallback


----------------------------------------------------------------------------
(* Observer of the mock-stream scenario: as long as the resolver has been   *)
(* driven only by a SIGNED_IN event carrying a session followed by a        *)
(* SIGNED_OUT event carrying none, it records the statuses seen; any other  *)
(* resolver step switches it off.                                           *)

ScenarioOff == [live |-> FALSE, seen |-> <<>>]

ScenarioStep(e, statusAfter) ==
    IF /\ scenario.live
       /\ \/ /\ Len(scenario.seen) = 1
             /\ e.event = "SIGNED_IN"
             /\ e.session # NoSession
          \/ /\ Len(scenario.seen) = 2
             /\ e.event = "SIGNED_OUT"
             /\ e.session = NoSession
    THEN [live |-> TRUE, seen |-> Append(scenario.seen, statusAfter)]
    ELSE ScenarioOff

----------------------------------------------------------------------------
(* The hosted auth backend and its client library (external collaborator). *)

\* The library calls the subscribed callback; after unsubscribe() it has none.
\* by is the id of the call of the app the event answers, NoId for an event
\* the library reports on its own.
Emit(name, s, by) ==
    events' = IF mounted
              THEN Append(events, [event |-> name, session |-> s, by |-> by])
              ELSE events

\* The client library reports a session lifecycle event on its own: the
\* initial session after subscription, a recovered or refreshed session, or
\* the loss of the session (expiry, sign-out elsewhere).
AuthEvent(name) ==
    /\ Len(events) < MaxEvents
    /\ CASE name = "INITIAL_SESSION" ->
              /\ Emit(name, backendSession, NoId)
              /\ UNCHANGED backendSession
         [] name \in {"SIGNED_IN", "TOKEN_REFRESHED"} ->
              /\ backendSession # NoSession
              /\ Emit(name, backendSession, NoId)
              /\ UNCHANGED backendSession
         [] name = "SIGNED_OUT" ->
              /\ backendSession # NoSession
              /\ backendSession' = NoSession
              /\ Emit(name, NoSession, NoId)
    /\ UNCHANGED <<users, session, loading, error, initPc, calls, path,
                   navBy, scenario, listened>>

----------------------------------------------------------------------------
(* useAuth: the initial session fetch and the session-change listener.      *)

\* Variant: the fetch result is stored whether or not the hook is mounted.
initializeAuthResolved_unguarded(s) ==
    /\ initPc = "pending"
    /\ initPc' = "resolved"
    /\ session' = s
    /\ loading' = FALSE
    /\ scenario' = ScenarioOff
    /\ UNCHANGED <<users, backendSession, error, events, listened, calls,
                   path, navBy>>

\* supabase.auth.getSession() resolved with the stored session, or with none
\* when none is stored.
initializeAuthResolved(s) ==
    /\ initPc = "pending"
    /\ initPc' = "resolved"
    /\ IF mounted
       THEN /\ session' = s
            /\ loading' = FALSE
       ELSE UNCHANGED <<session, loading>>
    /\ scenario' = ScenarioOff
    /\ UNCHANGED <<users, backendSession, error, events, listened, calls,
                   path, navBy>>

\* supabase.auth.getSession() resolved with { data: { session: null }, error }:
\* the library reports a failed lookup (an expired session it could not
\* refresh, say) in the result's error field, which the hook does not read.
initializeAuthReported(err) ==
    /\ initPc = "pending"
    /\ initPc' = "reported"
    /\ IF mounted
       THEN /\ session' = NoSession
            /\ loading' = FALSE
       ELSE UNCHANGED <<session, loading>>
    /\ scenario' = ScenarioOff
    /\ UNCHANGED <<users, backendSession, error, events, listened, calls,
                   path, navBy>>

\* supabase.auth.getSession() threw.
initializeAuthFailed(err) ==
    /\ initPc = "pending"
    /\ initPc' = "failed"
    /\ IF mounted
       THEN /\ error' = ErrorText(err, "Auth initialization failed")
            /\ loading' = FALSE
       ELSE UNCHANGED <<error, loading>>
    /\ scenario' = ScenarioOff
    /\ UNCHANGED <<users, backendSession, session, events, listened, calls,
                   path, navBy>>

\* Variant: the callback never touches the stored error.
onAuthStateChange_keepError ==
    /\ events # <<>>
    /\ LET e == Head(events) IN
       /\ session' = e.session
       /\ loading' = FALSE
       /\ error' = error
       /\ scenario' = ScenarioStep(e, StatusOf(loading', session'))
    /\ events' = Tail(events)
    /\ listened' = TRUE
    /\ UNCHANGED <<users, backendSession, initPc, calls, path, navBy>>

\* Variant: the callback stores the session and leaves loading as it is.
onAuthStateChange_keepLoading ==
    /\ events # <<>>
    /\ LET e == Head(events) IN
       /\ session' = e.session
       /\ loading' = loading
       /\ error' = IF e.event \in {"SIGNED_IN", "SIGNED_OUT"}
                   THEN Null ELSE error
       /\ scenario' = ScenarioStep(e, StatusOf(loading', session'))
    /\ events' = Tail(events)
    /\ listened' = TRUE
    /\ UNCHANGED <<users, backendSession, initPc, calls, path, navBy>>

\* The callback given to supabase.auth.onAuthStateChange handles the oldest
\* pending event.
onAuthStateChange ==
    /\ events # <<>>
    /\ LET e == Head(events) IN
       /\ IF mounted
          THEN /\ session' = e.session
               /\ loading' = FALSE
               /\ error' = IF e.event \in {"SIGNED_IN", "SIGNED_OUT"}
                           THEN Null ELSE error
          ELSE UNCHANGED <<session, loading, error>>
       /\ scenario' = ScenarioStep(e, StatusOf(loading', session'))
    /\ events' = Tail(events)
    /\ listened' = TRUE
    /\ UNCHANGED <<users, backendSession, initPc, calls, path, navBy>>


----------------------------------------------------------------------------
(* useAuth: signIn, signUp and signOut. A call is in flight from the moment *)
(* it has set loading until its finally block has run. The functions have   *)
(* no mounted check of their own, but setError and setLoading are the       *)
(* provider's state setters: once the provider is unmounted they change     *)
(* nothing, while the backend call and the caller's navigation go on.       *)

CallIds == 1..MaxCalls

FreeId == CHOOSE i \in CallIds : \A c \in calls : c.id # i

\* phase "sent": awaiting the backend; "ok": the backend has carried the
\* request out and the awaited promise is about to resolve.
NewCall(kind, origin, email) ==
    [id |-> FreeId, kind |-> kind, origin |-> origin, email |-> email,
     phase |-> "sent"]

\* try { setError(null); setLoading(true); await supabase.auth.signInWithPassword
signInStart(origin, email) ==
    /\ error' = IF mounted THEN Null ELSE error
    /\ loading' = IF mounted THEN TRUE ELSE loading
    /\ calls' = calls \cup {NewCall("signIn", origin, email)}

\* try { setError(null); setLoading(true); await supabase.auth.signUp
signUpStart(origin, email) ==
    /\ error' = IF mounted THEN Null ELSE error
    /\ loading' = IF mounted THEN TRUE ELSE loading
    /\ calls' = calls \cup {NewCall("signUp", origin, email)}

\* try { setError(null); setLoading(true); await supabase.auth.signOut
signOutStart(origin) ==
    /\ error' = IF mounted THEN Null ELSE error
    /\ loading' = IF mounted THEN TRUE ELSE loading
    /\ calls' = calls \cup {NewCall("signOut", origin, "")}

\* Variant: loading is reset only when the call succeeded.
signInSettle_noFinally(c, thrown) ==
    /\ error' = IF mounted /\ thrown # <<>>
                THEN ErrorText(thrown[1], "Sign in failed") ELSE error
    /\ loading' = IF mounted /\ thrown = <<>> THEN FALSE ELSE loading
    /\ calls' = calls \ {c}

\* catch (err) { setError(...); throw err } finally { setLoading(false) }
signInSettle(c, thrown) ==
    /\ error' = IF mounted /\ thrown # <<>>
                THEN ErrorText(thrown[1], "Sign in failed") ELSE error
    /\ loading' = IF mounted THEN FALSE ELSE loading
    /\ calls' = calls \ {c}

signUpSettle(c, thrown) ==
    /\ error' = IF mounted /\ thrown # <<>>
                THEN ErrorText(thrown[1], "Sign up failed") ELSE error
    /\ loading' = IF mounted THEN FALSE ELSE loading
    /\ calls' = calls \ {c}

\* Variant: a failed sign-out is swallowed, leaving no message.
signOutSettle_swallow(c, thrown) ==
    /\ error' = error
    /\ loading' = IF mounted THEN FALSE ELSE loading
    /\ calls' = calls \ {c}

signOutSettle(c, thrown) ==
    /\ error' = IF mounted /\ thrown # <<>>
                THEN ErrorText(thrown[1], "Sign out failed") ELSE error
    /\ loading' = IF mounted THEN FALSE ELSE loading
    /\ calls' = calls \ {c}

\* The backend answers a call in flight: the client library stores or drops
\* the session and calls its subscribers with the event.
BackendOk(c) ==
    /\ c.phase = "sent"
    /\ Len(events) < MaxEvents
    /\ calls' = (calls \ {c}) \cup {[c EXCEPT !.phase = "ok"]}
    /\ CASE c.kind = "signIn" ->
              /\ users[c.email] # "unregistered"
              /\ backendSession' = SessionOf(c.email, users[c.email])
              /\ Emit("SIGNED_IN", backendSession', c.id)
              /\ UNCHANGED users
         [] c.kind = "signUp" ->
              /\ users[c.email] = "unregistered"
              /\ users' = [users EXCEPT ![c.email] = PageRole(c.origin)]
              /\ \/ \* the account is confirmed at once: a session starts
                    /\ backendSession' = SessionOf(c.email, PageRole(c.origin))
                    /\ Emit("SIGNED_IN", backendSession', c.id)
                 \/ \* the account awaits e-mail confirmation: no session
                    /\ UNCHANGED <<backendSession, events>>
         [] c.kind = "signOut" ->
              /\ backendSession' = NoSession
              /\ Emit("SIGNED_OUT", NoSession, c.id)
              /\ UNCHANGED users
    /\ UNCHANGED <<session, loading, error, initPc, listened, path, navBy,
                   scenario>>

----------------------------------------------------------------------------
(* The section layouts. An effect is modelled by the router.replace calls   *)
(* it issues, in order; a view by the name of what is rendered.             *)

\* Variant: the wrong-role branch does not return after its redirect.
EmployerLayoutEffect_noReturn(st, r, l) ==
    IF l THEN <<>>
    ELSE IF st = "unauthenticated" THEN <<EmployerLogin>>
    ELSE IF st = "authenticated" /\ r # Null /\ r = "student"
         THEN <<"/student", HomePath>>
    ELSE IF st = "authenticated" /\ r # Null /\ r # "employer"
         THEN <<HomePath>>
    ELSE IF st = "authenticated" /\ r = Null THEN <<HomePath>>
    ELSE <<>>

EmployerLayoutEffect(st, r, l) ==
    IF l THEN <<>>
    ELSE IF st = "unauthenticated" THEN <<EmployerLogin>>
    ELSE IF st = "authenticated" /\ r # Null /\ r = "student"
         THEN <<"/student">>
    ELSE IF st = "authenticated" /\ r # Null /\ r # "employer"
         THEN <<HomePath>>
    ELSE IF st = "authenticated" /\ r = Null THEN <<HomePath>>
    ELSE <<>>

\* Variant: the screens are rendered for any authenticated user.
EmployerLayoutView_anyRole(st, r, l) ==
    IF l THEN "Loading..."
    ELSE IF st = "authenticated" THEN "Tabs"
    ELSE "Redirecting..."

\* Variant: the loading branch of the render is missing.
EmployerLayoutView_noLoading(st, r, l) ==
    IF st = "authenticated" /\ r = "employer" THEN "Tabs"
    ELSE "Redirecting..."

EmployerLayoutView(st, r, l) ==
    IF l THEN "Loading..."
    ELSE IF st = "authenticated" /\ r = "employer" THEN "Tabs"
    ELSE "Redirecting..."

\* Variant: an employer is sent to the student dashboard root.
StudentLayoutEffect_ownRoot(st, r, l) ==
    IF l THEN <<>>
    ELSE IF st = "unauthenticated" THEN <<StudentLogin>>
    ELSE IF st = "authenticated" /\ r # Null /\ r = "employer"
         THEN <<"/student">>
    ELSE IF st = "authenticated" /\ r # Null /\ r # "student"
         THEN <<HomePath>>
    ELSE IF st = "authenticated" /\ r = Null THEN <<HomePath>>
    ELSE <<>>

StudentLayoutEffect(st, r, l) ==
    IF l THEN <<>>
    ELSE IF st = "unauthenticated" THEN <<StudentLogin>>
    ELSE IF st = "authenticated" /\ r # Null /\ r = "employer"
         THEN <<"/employer">>
    ELSE IF st = "authenticated" /\ r # Null /\ r # "student"
         THEN <<HomePath>>
    ELSE IF st = "authenticated" /\ r = Null THEN <<HomePath>>
    ELSE <<>>

StudentLayoutView(st, r, l) ==
    IF l THEN "Loading..."
    ELSE IF st = "authenticated" /\ r = "student" THEN "Tabs"
    ELSE "Redirecting..."

----------------------------------------------------------------------------
(* The landing screen: it redirects while rendering, from the raw role      *)
(* metadata of the user.                                                    *)

UserRoleOf(u) == IF u = <<>> THEN "undefined" ELSE u[1].user_metadata.role

LandingScreenRedirect(st, userRole) ==
    IF st = "authenticated"
    THEN IF userRole = "student" THEN <<"/student">>
         ELSE IF userRole = "employer" THEN <<"/employer">>
         ELSE <<>>
    ELSE <<>>

LandingScreenView(st, userRole) ==
    IF LandingScreenRedirect(st, userRole) # <<>> THEN "null" ELSE "landing"

----------------------------------------------------------------------------
(* The root RouteGuard wrapped around every screen by RootLayout.           *)

DashboardOf(r) ==
    IF r = "student" THEN "/student"
    ELSE IF r = "employer" THEN "/employer"
    ELSE HomePath

\* Variant: the guard has no rule for login pages.
RouteGuard_noLoginRule(st, r, p) ==
    IF st = "loading" THEN <<>>
    ELSE IF st = "unauthenticated" /\ p \notin LoginPaths /\ p # HomePath
         THEN <<HomePath>>
    ELSE IF st = "authenticated" /\ r = "student" /\ p \in EmployerPaths
         THEN <<"/student">>
    ELSE IF st = "authenticated" /\ r = "employer" /\ p \in StudentPaths
         THEN <<"/employer">>
    ELSE <<>>

RouteGuard(st, r, p) ==
    IF st = "loading" THEN <<>>
    ELSE IF st = "unauthenticated" /\ p \notin LoginPaths /\ p # HomePath
         THEN <<HomePath>>
    ELSE IF st = "authenticated" /\ p \in LoginPaths THEN <<DashboardOf(r)>>
    ELSE IF st = "authenticated" /\ r = "student" /\ p \in EmployerPaths
         THEN <<"/student">>
    ELSE IF st = "authenticated" /\ r = "employer" /\ p \in StudentPaths
         THEN <<"/employer">>
    ELSE <<>>

RouteGuardView(st) == IF st = "loading" THEN "Loading..." ELSE "children"


----------------------------------------------------------------------------
(* Navigation.                                                              *)

Guards == {"EmployerLayout", "StudentLayout", "LandingScreen", "RouteGuard"}

Last(seq) == seq[Len(seq)]

\* router.replace / router.push: the location changes, the resolver does not.
GoTo(target, by) ==
    /\ mounted
    /\ path' = target
    /\ navBy' = by
    /\ UNCHANGED <<users, backendSession, session, loading, error, initPc,
                   events, calls, scenario, listened>>

EmployerLayoutRedirect ==
    /\ path \in EmployerPaths
    /\ EmployerLayoutEffect(status, role, loading) # <<>>
    /\ GoTo(Last(EmployerLayoutEffect(status, role, loading)), "EmployerLayout")

StudentLayoutRedirect ==
    /\ path \in StudentPaths
    /\ StudentLayoutEffect(status, role, loading) # <<>>
    /\ GoTo(Last(StudentLayoutEffect(status, role, loading)), "StudentLayout")

LandingScreenReplace ==
    /\ path = HomePath
    /\ LandingScreenRedirect(status, UserRoleOf(user)) # <<>>
    /\ GoTo(Last(LandingScreenRedirect(status, UserRoleOf(user))),
            "LandingScreen")

RouteGuardRedirect ==
    /\ RouteGuard(status, role, path) # <<>>
    /\ GoTo(Last(RouteGuard(status, role, path)), "RouteGuard")

\* The app is opened at, or sent to, a location from outside (URL, link).
OpenUrl(p) ==
    /\ p # path
    /\ GoTo(p, "user")

\* LandingScreen.handleStudentLogin / handleEmployerLogin
LandingScreenPush(p) ==
    /\ path = HomePath
    /\ LandingScreenView(status, UserRoleOf(user)) = "landing"
    /\ p \in LoginPaths
    /\ GoTo(p, "user")

\* Login screens: goBack, and the link to the other role's login page.
LoginScreenPush(p) ==
    /\ path \in LoginPaths
    /\ p \in ({HomePath} \cup LoginPaths) \ {path}
    /\ GoTo(p, "user")

\* The tab bar of a section, shown when its layout renders its screens.
TabPress(p) ==
    /\ p # path
    /\ \/ /\ path \in EmployerPaths /\ p \in EmployerPaths
          /\ EmployerLayoutView(status, role, loading) = "Tabs"
       \/ /\ path \in StudentPaths /\ p \in StudentPaths
          /\ StudentLayoutView(status, role, loading) = "Tabs"
    /\ GoTo(p, "user")

----------------------------------------------------------------------------
(* Handlers of the login and profile screens.                               *)

\* Login screens: handleSubmit, behind a button disabled while loading.
handleSubmit(page, isSignUp, email) ==
    /\ mounted
    /\ path = page
    /\ page \in LoginPaths
    /\ ~loading
    /\ Cardinality(calls) < MaxCalls
    /\ IF isSignUp
       THEN signUpStart(page, email)
       ELSE signInStart(page, email)
    /\ scenario' = ScenarioOff
    /\ UNCHANGED <<users, backendSession, session, initPc, events, path,
                   navBy, listened>>

\* Login screens: toggleMode calls clearError.
toggleMode ==
    /\ mounted
    /\ path \in LoginPaths
    /\ error # Null
    /\ error' = Null
    /\ scenario' = ScenarioOff
    /\ UNCHANGED <<users, backendSession, session, loading, initPc, events,
                   calls, path, navBy, listened>>

\* The pages with a 'Sign Out' button.
SignOutPages == {HomePath, "/employer/profile", "/student/profile"}

\* handleSignOut of the three screens that have one. EmployerProfileScreen's
\* runs up to the await of signOut(); the student ProfileScreen's only opens
\* the dialog Alert.alert('Sign Out', ..., [Cancel, Sign Out]) and returns;
\* the LandingScreen that greets an authenticated user ('Welcome Back!')
\* has the button in that view, and its handler awaits signOut() as well.
handleSignOut(page) ==
    /\ mounted
    /\ path = page
    /\ \/ /\ page = "/employer/profile"
          /\ EmployerLayoutView(status, role, loading) = "Tabs"
          /\ Cardinality(calls) < MaxCalls
          /\ signOutStart(page)
          /\ scenario' = ScenarioOff
          /\ UNCHANGED signOutDialog
       \/ /\ page = HomePath
          /\ status = "authenticated"
          /\ Cardinality(calls) < MaxCalls
          /\ signOutStart(page)
          /\ scenario' = ScenarioOff
          /\ UNCHANGED signOutDialog
       \/ /\ page = "/student/profile"
          /\ StudentLayoutView(status, role, loading) = "Tabs"
          /\ ~signOutDialog
          /\ signOutDialog' = TRUE
          /\ UNCHANGED <<loading, error, calls, scenario>>
    /\ UNCHANGED <<users, backendSession, session, initPc, events, path,
                   navBy, listened>>

\* The dialog's 'Sign Out' button: onPress awaits signOut(), wherever the
\* app is by then, and whether or not the screens are still there (the
\* dialog is the platform's); the dialog closes.
signOutDialogConfirm ==
    /\ signOutDialog
    /\ Cardinality(calls) < MaxCalls
    /\ signOutStart("/student/profile")
    /\ signOutDialog' = FALSE
    /\ scenario' = ScenarioOff
    /\ UNCHANGED <<users, backendSession, session, initPc, events, path,
                   navBy, listened>>

\* The dialog's 'Cancel' button: the dialog closes and nothing is called.
signOutDialogCancel ==
    /\ signOutDialog
    /\ signOutDialog' = FALSE
    /\ UNCHANGED <<users, backendSession, session, loading, error, initPc,
                   events, calls, path, navBy, listened, scenario>>

\* Variant: handleSignOut issues no redirect of its own.
Return_noReplace(c, thrown) ==
    /\ CASE c.kind = "signIn" -> signInSettle(c, thrown)
         [] c.kind = "signUp" -> signUpSettle(c, thrown)
         [] c.kind = "signOut" -> signOutSettle(c, thrown)
    /\ UNCHANGED <<path, navBy>>
    /\ scenario' = ScenarioOff
    /\ UNCHANGED <<users, backendSession, session, initPc, events, listened>>

\* A call returns to its caller: signIn and signUp to handleSubmit, which
\* only logs a failure; signOut to handleSignOut, which on the profile
\* screens goes home after a success and on the landing screen only logs a
\* failure. thrown is <<>> or holds what the call threw.
Return(c, thrown) ==
    /\ CASE c.kind = "signIn" -> signInSettle(c, thrown)
         [] c.kind = "signUp" -> signUpSettle(c, thrown)
         [] c.kind = "signOut" -> signOutSettle(c, thrown)
    /\ IF c.kind = "signOut" /\ thrown = <<>> /\ c.origin # HomePath
       THEN /\ path' = HomePath
            /\ navBy' = "handleSignOut"
       ELSE UNCHANGED <<path, navBy>>
    /\ scenario' = ScenarioOff
    /\ UNCHANGED <<users, backendSession, session, initPc, events, listened>>

\* The client library has called its subscribers with the event that
\* answers the call c (it awaits them before it resolves the call).
Notified(c) == \A k \in 1..Len(events) : events[k].by # c.id

\* The awaited backend call resolved without an error.
ReturnOk(c) ==
    /\ c.phase = "ok"
    /\ Notified(c)
    /\ Return(c, <<>>)

\* The awaited backend call reported an error or threw; the backend state
\* is as it was.
ReturnError(c, err) ==
    /\ c.phase = "sent"
    /\ Return(c, <<err>>)

----------------------------------------------------------------------------
(* The specification.                                                       *)

InitialUsers ==
    [e \in Emails |->
        CASE e = "stu@x" -> "student"
          [] e = "norole@x" -> "undefined"
          [] OTHER -> "unregistered"]

\* Each part of the client before any of its screens is opened.
Instances == 1..MaxSubmits

\* JobDetailScreen with useApply and useApplicationStatus: checking is the
\* latter's loading, statusPc the await its effect is suspended at, applies
\* the apply() calls in flight, sentTo where the router was sent from the
\* screen and sentBy which of its handlers sent it.
DetailOff ==
    [mounted |-> FALSE, job |-> Null, applicationStatus |-> Null,
     checking |-> TRUE, statusPc |-> "idle",
     showApplicationForm |-> FALSE, applicationNote |-> "",
     applies |-> <<>>, loading |-> FALSE, error |-> Null, sentTo |-> Null,
     sentBy |-> Null]

NoUpdate ==
    [screen |-> Null, caller |-> Null, id |-> NoId, status |-> Null,
     was |-> Null, rows |-> 0, report |-> Null]

FetchOff ==
    [mounted |-> FALSE, filter |-> Null, applications |-> <<>>,
     loading |-> TRUE, error |-> Null, loads |-> <<>>]

SetupOff ==
    [mounted |-> FALSE, loadingData |-> TRUE, existingCompanyId |-> NoId,
     companySaved |-> FALSE, loading |-> FALSE, name |-> "",
     description |-> "", loadPc |-> "idle", saves |-> <<>>]

\* The value of company while it is null.
NoCompany == [id |-> NoId, name |-> "", description |-> ""]

ProfileOff ==
    [mounted |-> FALSE, loading |-> TRUE, company |-> NoCompany,
     isEditing |-> FALSE, saving |-> FALSE, name |-> "",
     description |-> "", loadPc |-> "idle", saves |-> <<>>]

\* useProfile: useState(null), useState(true), useState(null); seen is the
\* user id its effect ran for last, calls the loadProfile and updateProfile
\* calls in flight.
ProfileHookOff ==
    [mounted |-> FALSE, seen |-> Null, profile |-> Null, loading |-> TRUE,
     error |-> Null, calls |-> <<>>]

\* useCheckApplication: useState(false), useState(true), useState(null)
CheckOff ==
    [mounted |-> FALSE, jobId |-> Null, hasApplied |-> FALSE,
     loading |-> TRUE, error |-> Null, calls |-> <<>>]

\* The employer's list screens: useState([]), useState(true), and
\* useState(null) for updatingStatus (ApplicantsScreen) and for error
\* (EmployerApplicationsScreen); each declares only its own.
\* loads holds the loadApplications calls in flight, updates the
\* updateApplicationStatus calls in flight, and logged is what the handler
\* of the screen that ended last wrote to the console.
ListOff ==
    [kind |-> Null, applications |-> <<>>, loading |-> TRUE, error |-> Null,
     updatingStatus |-> NoId, loads |-> <<>>, updates |-> <<>>,
     logged |-> Null]

\* NewJobScreen: companyId null, loadingCompany true, an empty form; posts
\* holds the handleSubmit calls in flight, picks the pickImages calls.
NewJobOff ==
    [mounted |-> FALSE, loadPc |-> "idle", user |-> Null,
     companyId |-> Null, loadingCompany |-> TRUE,
     title |-> "", description |-> "", isPaid |-> FALSE,
     stipendAmount |-> "", selectedTags |-> 0, selectedImages |-> 0,
     errors |-> {}, posts |-> <<>>, picks |-> <<>>,
     job |-> NoId, sentTo |-> Null, logged |-> Null]

SubmitAtRest ==
    /\ detail = [i \in Instances |-> DetailOff]
    /\ overlapped = FALSE
    /\ blindCheck = FALSE
    /\ backs = 0

ReviewAtRest ==
    /\ updates = {}
    /\ lastUpdate = NoUpdate
    /\ reloading = FALSE

FetchAtRest ==
    /\ fetch = FetchOff
    /\ aborted = FALSE

HooksAtRest ==
    /\ profileHook = ProfileHookOff
    /\ check = CheckOff

ScreensAtRest ==
    /\ listScreen = ListOff
    /\ newJob = NewJobOff
    /\ jobs = <<>>

CompanyAtRest ==
    /\ setup = SetupOff
    /\ profileScreen = ProfileOff

\* The backend tables of a fresh installation.
TablesEmpty ==
    /\ profiles = {}
    /\ applications = <<>>
    /\ companies = <<>>
    /\ updatePolicy = TRUE

\* The resolver settled on the session of a signed-in user at location p.
AuthAtRest(email, metaRole, p) ==
    /\ users = [InitialUsers EXCEPT ![email] = metaRole]
    /\ backendSession = SessionOf(email, metaRole)
    /\ session = SessionOf(email, metaRole)
    /\ loading = FALSE
    /\ error = Null
    /\ initPc = "resolved"
    /\ events = <<>>
    /\ listened = FALSE
    /\ calls = {}
    /\ path = p
    /\ navBy = "user"
    /\ scenario = ScenarioOff
    /\ mounted = TRUE
    /\ signOutDialog = FALSE

\* The auth part runs with every other part at rest.
OutsideAuthAtRest ==
    /\ TablesEmpty
    /\ SubmitAtRest
    /\ ReviewAtRest
    /\ FetchAtRest
    /\ CompanyAtRest
    /\ HooksAtRest
    /\ ScreensAtRest

\* What no step of the running app changes: the other parts, and the hook's
\* mounted flag, which only the effect's cleanup clears.
OutsideAuth ==
    UNCHANGED <<mounted, submitVars, applications, reviewVars, fetchVars,
                companyVars, hookVars, screenVars>>

\* A step that leaves the sign-out dialog as it is.
DialogKept == UNCHANGED signOutDialog

\* Variant: the hook starts with loading false.
Init_notLoading ==
    /\ users = InitialUsers
    /\ backendSession \in {NoSession} \cup
          {SessionOf(e, InitialUsers[e]) :
              e \in {x \in Emails : InitialUsers[x] # "unregistered"}}
    /\ session = NoSession
    /\ loading = FALSE
    /\ error = Null
    /\ initPc = "pending"
    /\ events = <<>>
    /\ listened = FALSE
    /\ calls = {}
    /\ path = HomePath
    /\ navBy = "none"
    /\ scenario = [live |-> TRUE, seen |-> <<"loading">>]
    /\ mounted = TRUE
    /\ signOutDialog = FALSE
    /\ OutsideAuthAtRest

Init ==
    /\ users = InitialUsers
    /\ backendSession \in {NoSession} \cup
          {SessionOf(e, InitialUsers[e]) :
              e \in {x \in Emails : InitialUsers[x] # "unregistered"}}
    /\ session = NoSession
    /\ loading = TRUE
    /\ error = Null
    /\ initPc = "pending"
    /\ events = <<>>
    /\ listened = FALSE
    /\ calls = {}
    /\ path = HomePath
    /\ navBy = "none"
    /\ scenario = [live |-> TRUE, seen |-> <<"loading">>]
    /\ mounted = TRUE
    /\ signOutDialog = FALSE
    /\ OutsideAuthAtRest

Next ==
    \/ OutsideAuth /\ DialogKept /\ \E name \in EventNames : AuthEvent(name)
    \/ OutsideAuth /\ DialogKept /\ \E s \in {backendSession} : initializeAuthResolved(s)
    \/ OutsideAuth /\ DialogKept /\ \E err \in Thrown : initializeAuthReported(err)
    \/ OutsideAuth /\ DialogKept /\ \E err \in Thrown : initializeAuthFailed(err)
    \/ OutsideAuth /\ DialogKept /\ onAuthStateChange
    \/ OutsideAuth /\ DialogKept /\ \E c \in calls : BackendOk(c)
    \/ OutsideAuth /\ DialogKept /\ \E c \in calls : ReturnOk(c)
    \/ OutsideAuth /\ DialogKept /\ \E c \in calls, err \in Thrown : ReturnError(c, err)
    \/ OutsideAuth /\ DialogKept /\ \E page \in LoginPaths, isSignUp \in BOOLEAN, email \in Emails :
          handleSubmit(page, isSignUp, email)
    \/ OutsideAuth /\ DialogKept /\ toggleMode
    \/ OutsideAuth /\ \E page \in SignOutPages : handleSignOut(page)
    \/ OutsideAuth /\ signOutDialogConfirm
    \/ OutsideAuth /\ signOutDialogCancel
    \/ OutsideAuth /\ DialogKept /\ EmployerLayoutRedirect
    \/ OutsideAuth /\ DialogKept /\ StudentLayoutRedirect
    \/ OutsideAuth /\ DialogKept /\ LandingScreenReplace
    \/ OutsideAuth /\ DialogKept /\ RouteGuardRedirect
    \/ OutsideAuth /\ DialogKept /\ \E p \in Paths : OpenUrl(p)
    \/ OutsideAuth /\ DialogKept /\ \E p \in Paths : LandingScreenPush(p)
    \/ OutsideAuth /\ DialogKept /\ \E p \in Paths : LoginScreenPush(p)
    \/ OutsideAuth /\ DialogKept /\ \E p \in Paths : TabPress(p)

Spec == Init /\ [][Next]_vars

\* The root guard's effect runs after every render in which its inputs have
\* changed: a redirect that stays due is carried out.
GuardLiveSpec ==
    Init /\ [][Next]_vars
         /\ WF_vars(OutsideAuth /\ DialogKept /\ RouteGuardRedirect)

\* The cleanup of useAuth's effect, run when the provider that holds the hook
\* is unmounted and the screens with it: mounted = false and
\* subscription.unsubscribe().
Unmount ==
    /\ mounted
    /\ mounted' = FALSE
    /\ UNCHANGED <<users, backendSession, session, loading, error, initPc,
                   events, listened, calls, path, navBy, scenario,
                   signOutDialog>>
    /\ UNCHANGED <<submitVars, applications, reviewVars, fetchVars,
                   companyVars, hookVars, screenVars>>

\* The app with its teardown: what was started before goes on afterwards.
TeardownNext ==
    \/ Next
    \/ Unmount

TeardownSpec == Init /\ [][TeardownNext]_vars

----------------------------------------------------------------------------
(* The application submission flow: JobDetailScreen with its useApply and   *)
(* useApplicationStatus hooks. A step of apply runs from one await to the   *)
(* next; the backend call of the await takes effect in the step that        *)
(* resumes from it. A flag ok tells whether the call came back without an   *)
(* error; res is <<>> for that, or holds the error reported.                *)

DbResults == {<<>>} \cup {<<e>> : e \in DbErrors}

\* The ids of the rows select ... eq('job_id', job).eq('student_user_id', s)
\* matches.
ApplicationsOf(job, student) ==
    {k \in 1..Len(applications) :
        /\ applications[k].job_id = job
        /\ applications[k].student_user_id = student}

\* An apply() call in flight: the await it is suspended at, the job it was
\* called for, and whether the screen that called it is still the one
\* mounted (the state setters of a screen that is gone do nothing).
ApplyCall(job) == [pc |-> "getUser", job |-> job, live |-> TRUE]

InFlight(i) == detail[i].applies # <<>>

\* The calls of a screen that is taken down go on without it.
Orphaned(cs) == [n \in 1..Len(cs) |-> [cs[n] EXCEPT !.live = FALSE]]

\* The calls in flight without the n-th.
Without(cs, n) == SubSeq(cs, 1, n - 1) \o SubSeq(cs, n + 1, Len(cs))

RECURSIVE AppliesOf(_)
AppliesOf(S) ==
    IF S = {} THEN 0
    ELSE LET i == CHOOSE j \in S : TRUE
         IN Len(detail[i].applies) + AppliesOf(S \ {i})

OutsideSubmit ==
    UNCHANGED <<authVars, reviewVars, fetchVars, companyVars, hookVars,
                screenVars>>

\* The screen is opened on a job: the effect of useApplicationStatus runs
\* checkApplicationStatus up to its await of getUser(). The apply button is
\* disabled while checkingApplication is true.
JobDetailMount(i, job) ==
    /\ ~detail[i].mounted
    /\ detail' = [detail EXCEPT ![i] =
                    [DetailOff EXCEPT !.mounted = TRUE, !.job = job,
                                      !.statusPc = "getUser",
                                      !.applies = detail[i].applies]]
    /\ UNCHANGED <<profiles, applications, overlapped, blindCheck, backs>>
    /\ OutsideSubmit

\* checkApplicationStatus: const { data: { user } } = await getUser();
\* without a user setStatus(null), setLoading(false).
statusGetUser(i, u) ==
    /\ detail[i].statusPc = "getUser"
    /\ detail' = IF u = Null
                 THEN [detail EXCEPT ![i].statusPc = "idle",
                                     ![i].checking = FALSE]
                 ELSE [detail EXCEPT ![i].statusPc = "select"]
    /\ UNCHANGED <<profiles, applications, overlapped, blindCheck, backs>>
    /\ OutsideSubmit

\* checkApplicationStatus after select('status').eq('job_id', jobId)
\* .eq('student_user_id', user.id).limit(1): the status of one of the
\* student's applications for the job (no order is asked for), null when
\* there is none; an error is thrown and the status stays null.
statusSelect(i, ok) ==
    /\ detail[i].statusPc = "select"
    /\ \E st \in IF ok /\ ApplicationsOf(detail[i].job, Student) # {}
                 THEN {applications[k].status :
                          k \in ApplicationsOf(detail[i].job, Student)}
                 ELSE {Null} :
          detail' = [detail EXCEPT ![i].applicationStatus = st,
                                   ![i].statusPc = "idle",
                                   ![i].checking = FALSE]
    /\ UNCHANGED <<profiles, applications, overlapped, blindCheck, backs>>
    /\ OutsideSubmit

\* What the student types into the form's note field.
Notes == {"", "I am interested"}

\* The screen is the one the student sees and can press: it is mounted and
\* the router has not been sent on from it.
OnTop(i) == detail[i].mounted /\ detail[i].sentTo = Null

\* onChangeText={setApplicationNote} of the form's note field.
setApplicationNote(i, text) ==
    /\ OnTop(i)
    /\ detail[i].showApplicationForm
    /\ text # detail[i].applicationNote
    /\ detail' = [detail EXCEPT ![i].applicationNote = text]
    /\ UNCHANGED <<profiles, applications, overlapped, blindCheck, backs>>
    /\ OutsideSubmit

\* The form's 'Cancel' button: setShowApplicationForm(false).
cancelApplicationForm(i) ==
    /\ OnTop(i)
    /\ detail[i].showApplicationForm
    /\ detail' = [detail EXCEPT ![i].showApplicationForm = FALSE]
    /\ UNCHANGED <<profiles, applications, overlapped, blindCheck, backs>>
    /\ OutsideSubmit

\* catch (err) { setError(errorMessage); throw new Error(errorMessage) }
\* finally { setLoading(false) }; handleApply's catch only logs.
applyFail(i, n, msg) ==
    detail' = [detail EXCEPT ![i] =
                 IF detail[i].applies[n].live
                 THEN [detail[i] EXCEPT
                         !.error = msg, !.loading = FALSE,
                         !.applies = Without(detail[i].applies, n)]
                 ELSE [detail[i] EXCEPT
                         !.applies = Without(detail[i].applies, n)]]

\* The n-th call of the screen goes on to its next await.
applyGoOn(i, n, pc) == detail' = [detail EXCEPT ![i].applies[n].pc = pc]

\* JobDetailScreen.handleApply up to the first await of apply(). The button
\* shown without the form is disabled while the status is checked or set,
\* and its press opens the form; the button of the form calls apply, which
\* runs setError(null), setLoading(true) up to its await of getUser().
handleApply(i) ==
    /\ OnTop(i)
    /\ detail[i].applicationStatus = Null
    /\ \/ /\ ~detail[i].showApplicationForm
          /\ ~detail[i].checking
          /\ detail' = [detail EXCEPT ![i].showApplicationForm = TRUE]
          /\ UNCHANGED overlapped
       \/ /\ detail[i].showApplicationForm
          /\ Len(applications) + AppliesOf(Instances) < MaxApps
          /\ detail' = [detail EXCEPT
                          ![i].error = Null, ![i].loading = TRUE,
                          ![i].applies = Append(@, ApplyCall(detail[i].job))]
          /\ overlapped' = (overlapped \/ AppliesOf(Instances) > 0)
    /\ UNCHANGED <<profiles, applications, blindCheck, backs>>
    /\ OutsideSubmit

\* const { data: { user } } = await supabase.auth.getUser()
applyGetUser(i, n, u) ==
    /\ n \in 1..Len(detail[i].applies)
    /\ detail[i].applies[n].pc = "getUser"
    /\ IF u = Null
       THEN applyFail(i, n, "No authenticated user")
       ELSE applyGoOn(i, n, "profileSelect")
    /\ UNCHANGED <<profiles, applications, overlapped, blindCheck, backs>>
    /\ OutsideSubmit

\* const { data: existingProfile } = await ...from('profiles')...single():
\* data is null when there is no row and when the read failed.
applyProfileSelect(i, n, ok) ==
    /\ n \in 1..Len(detail[i].applies)
    /\ detail[i].applies[n].pc = "profileSelect"
    /\ LET existingProfile == ok /\ Student \in profiles IN
       applyGoOn(i, n, IF existingProfile THEN "checkApplied"
                       ELSE "profileInsert")
    /\ UNCHANGED <<profiles, applications, overlapped, blindCheck, backs>>
    /\ OutsideSubmit

\* Variant: a failed profile insert is logged and the submission goes on.
applyProfileInsert_goOn(i, n, ok) ==
    /\ n \in 1..Len(detail[i].applies)
    /\ detail[i].applies[n].pc = "profileInsert"
    /\ profiles' = IF ok THEN profiles \cup {Student} ELSE profiles
    /\ applyGoOn(i, n, "checkApplied")
    /\ UNCHANGED <<applications, overlapped, blindCheck, backs>>
    /\ OutsideSubmit

\* const { error: profileError } = await ...from('profiles').insert(...):
\* the insert fails when the call does or when the id already has a row.
applyProfileInsert(i, n, ok) ==
    /\ n \in 1..Len(detail[i].applies)
    /\ detail[i].applies[n].pc = "profileInsert"
    /\ IF ok /\ Student \notin profiles
       THEN /\ profiles' = profiles \cup {Student}
            /\ applyGoOn(i, n, "checkApplied")
       ELSE /\ applyFail(i, n, "Failed to create user profile")
            /\ UNCHANGED profiles
    /\ UNCHANGED <<applications, overlapped, blindCheck, backs>>
    /\ OutsideSubmit

\* Variant: the existence check never finds an application.
applyCheckApplied_never(i, n, ok) ==
    /\ n \in 1..Len(detail[i].applies)
    /\ detail[i].applies[n].pc = "checkApplied"
    /\ applyGoOn(i, n, "insert")
    /\ blindCheck' = (blindCheck \/ ~ok)
    /\ UNCHANGED <<profiles, applications, overlapped, backs>>
    /\ OutsideSubmit

\* const { data: existingApplication } = await ...from('applications')
\* .select('id').eq('job_id', jobId).eq('student_user_id', user.id).limit(1):
\* data is null when the read failed, and the submission then goes on.
applyCheckApplied(i, n, ok) ==
    /\ n \in 1..Len(detail[i].applies)
    /\ detail[i].applies[n].pc = "checkApplied"
    /\ LET existingApplication ==
              IF ok THEN ApplicationsOf(detail[i].applies[n].job, Student)
              ELSE {}
       IN IF existingApplication # {}
          THEN /\ applyFail(i, n, "You have already applied for this position")
               /\ UNCHANGED blindCheck
          ELSE /\ applyGoOn(i, n, "insert")
               /\ blindCheck' = (blindCheck \/ ~ok)
    /\ UNCHANGED <<profiles, applications, overlapped, backs>>
    /\ OutsideSubmit

\* Variant: after a success the screen stays as it is, form and all.
applyInsert_keepForm(i, n, res) ==
    /\ n \in 1..Len(detail[i].applies)
    /\ detail[i].applies[n].pc = "insert"
    /\ IF res = <<>>
       THEN /\ applications' =
                  Append(applications,
                         ApplicationRow(detail[i].applies[n].job, Student,
                                        "submitted"))
            /\ detail' = [detail EXCEPT
                            ![i].loading = IF detail[i].applies[n].live
                                           THEN FALSE ELSE @,
                            ![i].applies = Without(@, n)]
       ELSE /\ applyFail(i, n, ErrorText(res[1], "Failed to apply for job"))
            /\ UNCHANGED applications
    /\ UNCHANGED <<profiles, overlapped, blindCheck, backs>>
    /\ OutsideSubmit

\* The screen after the handleApply whose n-th call has succeeded: the
\* handler hides and clears the form (setters that do nothing when its
\* screen is gone) and calls router.replace('/student'). The replace takes
\* down the screen on top; a screen the dashboard was pushed over stays
\* mounted under it. The other calls go on.
Applied(d, n) ==
    LET rest == Without(d.applies, n) IN
    IF d.mounted /\ d.sentTo # Null
    THEN IF d.applies[n].live
         THEN [d EXCEPT !.showApplicationForm = FALSE,
                        !.applicationNote = "", !.loading = FALSE,
                        !.applies = rest,
                        !.sentTo = "/student", !.sentBy = "handleApply"]
         ELSE [d EXCEPT !.applies = rest,
                        !.sentTo = "/student", !.sentBy = "handleApply"]
    ELSE [DetailOff EXCEPT !.sentTo = "/student", !.sentBy = "handleApply",
                           !.applies = Orphaned(rest)]

\* const { error } = await ...from('applications').insert(applicationData).
\* After a success handleApply hides and clears the form and replaces the
\* route by '/student'. The handler of a screen that was left does the
\* same: its setters do nothing, but the router is the app's.
applyInsert(i, n, res) ==
    /\ n \in 1..Len(detail[i].applies)
    /\ detail[i].applies[n].pc = "insert"
    /\ IF res = <<>>
       THEN /\ applications' =
                  Append(applications,
                         ApplicationRow(detail[i].applies[n].job, Student,
                                        "submitted"))
            /\ detail' = [detail EXCEPT ![i] = Applied(detail[i], n)]
       ELSE /\ applyFail(i, n, ErrorText(res[1], "Failed to apply for job"))
            /\ UNCHANGED applications
    /\ UNCHANGED <<profiles, overlapped, blindCheck, backs>>
    /\ OutsideSubmit

\* The header's button '<- Back': router.push('/student'). Where the
\* screen's route lies in the navigators is not in the source: the push
\* either lays the dashboard over the screen, which stays mounted with its
\* state (kept), or goes back to a dashboard below it and takes the screen
\* down. The calls in flight go on either way.
Back(i, kept) ==
    /\ OnTop(i)
    /\ backs < MaxBacks
    /\ backs' = backs + 1
    /\ detail' = [detail EXCEPT ![i] =
                    IF kept
                    THEN [detail[i] EXCEPT !.sentTo = "/student",
                                           !.sentBy = "Back"]
                    ELSE [DetailOff EXCEPT
                            !.sentTo = "/student", !.sentBy = "Back",
                            !.applies = Orphaned(detail[i].applies)]]
    /\ UNCHANGED <<profiles, applications, overlapped, blindCheck>>
    /\ OutsideSubmit

\* The app is closed or killed while a submission is in flight: the calls
\* not yet issued never are.
AppKilled(i) ==
    /\ InFlight(i)
    /\ detail' = [detail EXCEPT ![i] = DetailOff]
    /\ UNCHANGED <<profiles, applications, overlapped, blindCheck, backs>>
    /\ OutsideSubmit

\* A signed-in student without a profile row; every job belongs to the
\* company of Owner.
BackendWithJobs ==
    /\ profiles = {}
    /\ applications = <<>>
    /\ companies = <<CompanyRow(Owner, "Acme")>>

SubmitInit ==
    /\ AuthAtRest("stu@x", "student", "/student")
    /\ BackendWithJobs
    /\ updatePolicy = TRUE
    /\ SubmitAtRest
    /\ ReviewAtRest
    /\ FetchAtRest
    /\ CompanyAtRest
    /\ HooksAtRest
    /\ ScreensAtRest

\* The calls a screen can have in flight.
CallNos == 1..MaxApps

SubmitNext ==
    \/ \E i \in Instances, job \in Jobs : JobDetailMount(i, job)
    \/ \E i \in Instances, u \in {Student, Null} : statusGetUser(i, u)
    \/ \E i \in Instances, ok \in BOOLEAN : statusSelect(i, ok)
    \/ \E i \in Instances : handleApply(i)
    \/ \E i \in Instances, text \in Notes : setApplicationNote(i, text)
    \/ \E i \in Instances : cancelApplicationForm(i)
    \/ \E i \in Instances, n \in CallNos, u \in {Student, Null} :
          applyGetUser(i, n, u)
    \/ \E i \in Instances, n \in CallNos, ok \in BOOLEAN :
          applyProfileSelect(i, n, ok)
    \/ \E i \in Instances, n \in CallNos, ok \in BOOLEAN :
          applyProfileInsert(i, n, ok)
    \/ \E i \in Instances, n \in CallNos, ok \in BOOLEAN :
          applyCheckApplied(i, n, ok)
    \/ \E i \in Instances, n \in CallNos, res \in DbResults :
          applyInsert(i, n, res)
    \/ \E i \in Instances, kept \in BOOLEAN : Back(i, kept)
    \/ \E i \in Instances : AppKilled(i)

SubmitSpec == SubmitInit /\ [][SubmitNext]_vars

----------------------------------------------------------------------------
(* The employer's status updates: ApplicantsScreen ("applicants") and       *)
(* EmployerApplicationsScreen ("applications"). A screen lists the rows as  *)
(* they were when it loaded them, so a button may be pressed for a row      *)
(* whose status has changed since.                                          *)

Screens == {"applicants", "applications"}
Callers == {Owner, Outsider}
Decisions == {"accepted", "rejected"}

OutsideReview ==
    UNCHANGED <<authVars, submitVars, fetchVars, companyVars, hookVars,
                screenVars>>

\* jobs.company_id: every job of the model belongs to the first company.
JobCompany(job) == 1

\* The policy "Employers can update applications for their jobs": the rows
\* the caller may update are those of the jobs of a company the caller owns;
\* without the policy row-level security lets nobody update.
MayUpdate(caller, k) ==
    /\ updatePolicy
    /\ companies[JobCompany(applications[k].job_id)].owner_user_id = caller

\* The number that tells the calls in flight apart.
FreeNo == CHOOSE n \in 1..MaxUpdates : \A u \in updates : u.no # n

\* updateApplicationStatus(applicationId, status) up to its first await:
\* ApplicantsScreen, which lists the applications of one job, whoever asks,
\* disables its buttons while updatingStatus is set, runs
\* setUpdatingStatus(id) and awaits getUser(); EmployerApplicationsScreen,
\* which lists those of the caller's own jobs and shows no list while
\* loading is set, sends the update at once.
updateApplicationStatus(screen, caller, id, st) ==
    /\ Cardinality(updates) < MaxUpdates
    /\ id \in 1..Len(applications)
    /\ st \in Decisions
    /\ IF screen = "applicants"
       THEN \A u \in updates :
               ~(u.screen = screen /\ u.caller = caller /\ u.live)
       ELSE /\ companies[JobCompany(applications[id].job_id)].owner_user_id
                  = caller
            /\ ~reloading
    /\ updates' = updates \cup
          {[no |-> FreeNo, screen |-> screen, caller |-> caller, id |-> id,
            status |-> st,
            pc |-> IF screen = "applicants" THEN "getUser" ELSE "update",
            live |-> TRUE]}
    /\ UNCHANGED <<applications, updatePolicy, lastUpdate, reloading>>
    /\ OutsideReview

\* ApplicantsScreen is left by its back button and opened again: the calls
\* of the screen that is gone go on, and the new one has no marker set.
ApplicantsLeave(caller) ==
    /\ \E u \in updates : u.screen = "applicants" /\ u.caller = caller /\ u.live
    /\ updates' = {IF u.screen = "applicants" /\ u.caller = caller
                   THEN [u EXCEPT !.live = FALSE] ELSE u : u \in updates}
    /\ UNCHANGED <<applications, updatePolicy, lastUpdate, reloading>>
    /\ OutsideReview

\* What the screen reports once the update has come back with rows affected
\* rows: ApplicantsScreen reads the returned rows and throws 'Update blocked
\* - you may not have permission ...' when there are none;
\* EmployerApplicationsScreen reads only the error.
ReportOf(screen, failed, rows) ==
    CASE failed -> "error"
      [] screen = "applicants" /\ rows = 0 -> "permission"
      [] OTHER -> "success"

\* What the handler of u reports at its end or before its reload.
Reported(u, rows, report) ==
    [screen |-> u.screen, caller |-> u.caller, id |-> u.id,
     status |-> u.status, was |-> applications[u.id].status, rows |-> rows,
     report |-> report]

\* ApplicantsScreen: const { data: { user }, error: authError } =
\* await supabase.auth.getUser(); an authError is thrown, caught and logged.
statusUpdateGetUser(u, ok) ==
    /\ u \in updates
    /\ u.pc = "getUser"
    /\ IF ok
       THEN /\ updates' = (updates \ {u}) \cup {[u EXCEPT !.pc = "update"]}
            /\ UNCHANGED lastUpdate
       ELSE /\ updates' = updates \ {u}
            /\ lastUpdate' = Reported(u, 0, "error")
    /\ UNCHANGED <<applications, updatePolicy, reloading>>
    /\ OutsideReview

\* The update has come back having written `written` to `rows` rows: the
\* screen reports it and, unless it threw or logged an error, awaits
\* loadApplications(), which on EmployerApplicationsScreen begins with
\* setLoading(true).
Settle(u, res, rows, written) ==
    /\ u \in updates
    /\ u.pc = "update"
    /\ applications' = IF rows = 1
                       THEN [applications EXCEPT ![u.id].status = written]
                       ELSE applications
    /\ lastUpdate' = Reported(u, rows, ReportOf(u.screen, res # <<>>, rows))
    /\ updates' = IF ReportOf(u.screen, res # <<>>, rows) = "success"
                  THEN (updates \ {u}) \cup {[u EXCEPT !.pc = "reload"]}
                  ELSE updates \ {u}
    /\ reloading' = IF /\ u.screen = "applications"
                       /\ ReportOf(u.screen, res # <<>>, rows) = "success"
                    THEN TRUE ELSE reloading
    /\ UNCHANGED updatePolicy
    /\ OutsideReview

\* Variant: an update is applied only to an application still submitted.
updateSettle_onlySubmitted(u, res) ==
    /\ u \in updates
    /\ Settle(u, res,
              IF /\ res = <<>>
                 /\ MayUpdate(u.caller, u.id)
                 /\ applications[u.id].status = "submitted"
              THEN 1 ELSE 0,
              u.status)

\* Variant: a rejection puts the application back to submitted.
updateSettle_resubmit(u, res) ==
    /\ u \in updates
    /\ Settle(u, res,
              IF res = <<>> /\ MayUpdate(u.caller, u.id) THEN 1 ELSE 0,
              IF u.status = "rejected" THEN "submitted" ELSE u.status)

\* The backend carries out update({ status }).eq('id', applicationId), on the
\* rows the policy lets the caller update, or fails; the screen handles the
\* result.
updateSettle(u, res) ==
    /\ u \in updates
    /\ Settle(u, res,
              IF res = <<>> /\ MayUpdate(u.caller, u.id) THEN 1 ELSE 0,
              u.status)

\* The loadApplications() awaited after the update comes back, ending on
\* EmployerApplicationsScreen with setLoading(false) whatever other reload
\* is still awaited, and the handler ends (on ApplicantsScreen with
\* setUpdatingStatus(null)).
statusUpdateReload(u) ==
    /\ u \in updates
    /\ u.pc = "reload"
    /\ updates' = updates \ {u}
    /\ reloading' = IF u.screen = "applications" THEN FALSE ELSE reloading
    /\ UNCHANGED <<applications, updatePolicy, lastUpdate>>
    /\ OutsideReview

\* A submission made on the student's device reaches the backend: the row
\* of applicationData is inserted, with status 'submitted'.
ApplicationArrives(job) ==
    /\ Len(applications) < MaxApps
    /\ applications' =
          Append(applications, ApplicationRow(job, Student, "submitted"))
    /\ UNCHANGED <<updatePolicy, updates, lastUpdate, reloading>>
    /\ OutsideReview

\* The backend with or without the update policy; the employers review the
\* applications for one job as they arrive.
ReviewJobs == {"job-1"}

ReviewInit ==
    /\ AuthAtRest("new@x", "employer", "/employer")
    /\ BackendWithJobs
    /\ updatePolicy \in BOOLEAN
    /\ SubmitAtRest
    /\ ReviewAtRest
    /\ FetchAtRest
    /\ CompanyAtRest
    /\ HooksAtRest
    /\ ScreensAtRest

ReviewNext ==
    \/ \E job \in ReviewJobs : ApplicationArrives(job)
    \/ \E screen \in Screens, caller \in Callers, id \in 1..MaxApps,
          st \in Decisions :
          updateApplicationStatus(screen, caller, id, st)
    \/ \E caller \in Callers : ApplicantsLeave(caller)
    \/ \E u \in updates, ok \in BOOLEAN : statusUpdateGetUser(u, ok)
    \/ \E u \in updates, res \in DbResults : updateSettle(u, res)
    \/ \E u \in updates : statusUpdateReload(u)

ReviewSpec == ReviewInit /\ [][ReviewNext]_vars

----------------------------------------------------------------------------
(* The company screens of the employer Owner: CompanySetupScreen and        *)
(* EmployerProfileScreen.                                                   *)

OutsideCompany ==
    UNCHANGED <<authVars, detail, overlapped, blindCheck, backs, applications,
                reviewVars, fetchVars, hookVars, screenVars>>

\* The ids of the rows select('*').eq('owner_user_id', owner) matches.
CompaniesOf(owner) ==
    {k \in 1..Len(companies) : companies[k].owner_user_id = owner}

TheOne(S) == CHOOSE k \in S : TRUE

\* A call of a save handler in flight: what it read from the form and the
\* state when the button was pressed, where it stands, and whether the
\* screen that started it is still there.
SaveCall(pc, name, description, id) ==
    [pc |-> pc, name |-> name, description |-> description, id |-> id,
     live |-> TRUE]

\* The saves started and not yet ended, on both screens.
SavesInFlight == Len(setup.saves) + Len(profileScreen.saves)

\* The screen is opened; its effect starts loadExistingCompany. Saves a
\* former visit left in flight go on.
CompanySetupMount ==
    /\ ~setup.mounted
    /\ setup' = [SetupOff EXCEPT !.mounted = TRUE, !.loadPc = "getUser",
                                 !.saves = setup.saves]
    /\ UNCHANGED <<profiles, companies, profileScreen>>
    /\ OutsideCompany

\* const { data: { user: authUser } } = await supabase.auth.getUser();
\* if (!authUser) return, and finally { setLoadingData(false) }
loadExistingCompanyGetUser(u) ==
    /\ setup.loadPc = "getUser"
    /\ setup' = IF u = Null
                THEN [setup EXCEPT !.loadingData = FALSE, !.loadPc = "idle"]
                ELSE [setup EXCEPT !.loadPc = "select"]
    /\ UNCHANGED <<profiles, companies, profileScreen>>
    /\ OutsideCompany

\* The select of loadExistingCompany comes back: .single() yields the row
\* when the read succeeds and matches exactly one, and an error otherwise
\* (no row, several rows, failed call), which is logged and otherwise
\* ignored.
loadExistingCompany(ok) ==
    /\ setup.loadPc = "select"
    /\ LET found == CompaniesOf(Owner) IN
       setup' = IF ok /\ Cardinality(found) = 1
                THEN [setup EXCEPT
                        !.existingCompanyId = TheOne(found),
                        !.name = companies[TheOne(found)].name,
                        !.description = companies[TheOne(found)].description,
                        !.loadingData = FALSE, !.loadPc = "idle"]
                ELSE [setup EXCEPT !.loadingData = FALSE, !.loadPc = "idle"]
    /\ UNCHANGED <<profiles, companies, profileScreen>>
    /\ OutsideCompany

\* onChangeText of the input 'Company Name *'
setCompanyName(text) ==
    /\ setup.mounted
    /\ ~setup.loadingData
    /\ text # setup.name
    /\ setup' = [setup EXCEPT !.name = text]
    /\ UNCHANGED <<profiles, companies, profileScreen>>
    /\ OutsideCompany

\* onChangeText of the input 'Description *'
setCompanyDescription(text) ==
    /\ setup.mounted
    /\ ~setup.loadingData
    /\ text # setup.description
    /\ setup' = [setup EXCEPT !.description = text]
    /\ UNCHANGED <<profiles, companies, profileScreen>>
    /\ OutsideCompany

\* handleSaveCompany up to its first await; the button shows while
\* companySaved is false. Without a name or a description it only logs.
handleSaveCompany ==
    /\ setup.mounted
    /\ ~setup.loadingData
    /\ ~setup.companySaved
    /\ Len(companies) + SavesInFlight < MaxCompanies
    /\ Trim(setup.name) # ""
    /\ Trim(setup.description) # ""
    /\ setup' = [setup EXCEPT
                   !.loading = TRUE,
                   !.saves = Append(@, SaveCall("getUser", Trim(setup.name),
                                                Trim(setup.description),
                                                setup.existingCompanyId))]
    /\ UNCHANGED <<profiles, companies, profileScreen>>
    /\ OutsideCompany

\* The handler ends: after a success setCompanySaved(true), after an error
\* the catch logs it; finally { setLoading(false) }. On a screen that was
\* left the setters do nothing.
saveCompanyEnd(n, saved) ==
    setup' = IF setup.saves[n].live
             THEN [setup EXCEPT !.saves = Without(@, n),
                                !.loading = FALSE,
                                !.companySaved = IF saved THEN TRUE ELSE @]
             ELSE [setup EXCEPT !.saves = Without(@, n)]

saveCompanyFail(n) == saveCompanyEnd(n, FALSE)

saveCompanyGoOn(n, pc) == setup' = [setup EXCEPT !.saves[n].pc = pc]

\* const { data: { user } } = await supabase.auth.getUser()
saveCompanyGetUser(n, u) ==
    /\ n \in 1..Len(setup.saves)
    /\ setup.saves[n].pc = "getUser"
    /\ IF u = Null
       THEN saveCompanyFail(n)
       ELSE saveCompanyGoOn(n, "profileSelect")
    /\ UNCHANGED <<profiles, companies, profileScreen>>
    /\ OutsideCompany

\* const { data: existingProfile } = await ...from('profiles')...single()
saveCompanyProfileSelect(n, ok) ==
    /\ n \in 1..Len(setup.saves)
    /\ setup.saves[n].pc = "profileSelect"
    /\ LET existingProfile == ok /\ Owner \in profiles IN
       saveCompanyGoOn(n, IF existingProfile THEN "write" ELSE "profileInsert")
    /\ UNCHANGED <<profiles, companies, profileScreen>>
    /\ OutsideCompany

\* const { error: profileError } = await ...from('profiles').insert(...)
saveCompanyProfileInsert(n, ok) ==
    /\ n \in 1..Len(setup.saves)
    /\ setup.saves[n].pc = "profileInsert"
    /\ IF ok /\ Owner \notin profiles
       THEN /\ profiles' = profiles \cup {Owner}
            /\ saveCompanyGoOn(n, "write")
       ELSE /\ saveCompanyFail(n)
            /\ UNCHANGED profiles
    /\ UNCHANGED <<companies, profileScreen>>
    /\ OutsideCompany

\* The update by existingCompanyId, or the insert when that is null; after a
\* success setCompanySaved(true), and existingCompanyId stays as it was.
saveCompanyWrite(n, res) ==
    /\ n \in 1..Len(setup.saves)
    /\ setup.saves[n].pc = "write"
    /\ LET call == setup.saves[n]
           companyData == [CompanyRow(Owner, call.name) EXCEPT
                             !.description = call.description]
       IN IF res = <<>>
          THEN /\ companies' = IF call.id # NoId
                               THEN [companies EXCEPT ![call.id] = companyData]
                               ELSE Append(companies, companyData)
               /\ saveCompanyEnd(n, TRUE)
          ELSE /\ saveCompanyFail(n)
               /\ UNCHANGED companies
    /\ UNCHANGED <<profiles, profileScreen>>
    /\ OutsideCompany

\* The button 'Edit Company Info': setCompanySaved(false)
EditCompanyInfo ==
    /\ setup.mounted
    /\ ~setup.loadingData
    /\ setup.companySaved
    /\ setup' = [setup EXCEPT !.companySaved = FALSE]
    /\ UNCHANGED <<profiles, companies, profileScreen>>
    /\ OutsideCompany

\* The back button, or handleContinueToDashboard: the screen is left, and
\* the saves in flight go on without it.
CompanySetupLeave ==
    /\ setup.mounted
    /\ ~setup.loadingData
    /\ setup' = [SetupOff EXCEPT !.saves = Orphaned(setup.saves)]
    /\ UNCHANGED <<profiles, companies, profileScreen>>
    /\ OutsideCompany

\* EmployerProfileScreen is opened; its effect starts loadCompany. Saves a
\* former visit left in flight go on.
EmployerProfileMount ==
    /\ ~profileScreen.mounted
    /\ profileScreen' = [ProfileOff EXCEPT !.mounted = TRUE,
                                           !.loadPc = "select",
                                           !.saves = profileScreen.saves]
    /\ UNCHANGED <<profiles, companies, setup>>
    /\ OutsideCompany

\* What loadCompany's select makes of the screen: .maybeSingle() yields the
\* row when exactly one matches, null without an error when none does, and
\* null with the error code PGRST116, which is let through, when several
\* do; any other error is thrown and logged and leaves company and the form
\* as they were. finally { setLoading(false) }
CompanyLoaded(ps, ok) ==
    LET found == CompaniesOf(Owner)
        data == IF Cardinality(found) = 1
                THEN [id |-> TheOne(found),
                      name |-> companies[TheOne(found)].name,
                      description |-> companies[TheOne(found)].description]
                ELSE NoCompany
    IN IF ~ok
       THEN [ps EXCEPT !.loading = FALSE]
       ELSE IF data = NoCompany
            THEN [ps EXCEPT !.company = NoCompany, !.loading = FALSE]
            ELSE [ps EXCEPT !.company = data, !.name = data.name,
                            !.description = data.description,
                            !.loading = FALSE]

\* The select of the loadCompany the effect started comes back.
loadCompany(ok) ==
    /\ profileScreen.loadPc = "select"
    /\ profileScreen' = [CompanyLoaded(profileScreen, ok) EXCEPT
                           !.loadPc = "idle"]
    /\ UNCHANGED <<profiles, companies, setup>>
    /\ OutsideCompany

\* The button 'Edit Company Profile' / 'Setup Company Profile':
\* setIsEditing(true)
EditCompanyProfile ==
    /\ profileScreen.mounted
    /\ ~profileScreen.loading
    /\ ~profileScreen.isEditing
    /\ profileScreen' = [profileScreen EXCEPT !.isEditing = TRUE]
    /\ UNCHANGED <<profiles, companies, setup>>
    /\ OutsideCompany

\* onChangeText of the edit form's input 'Company Name *'
setEditName(text) ==
    /\ profileScreen.mounted
    /\ ~profileScreen.loading
    /\ profileScreen.isEditing
    /\ text # profileScreen.name
    /\ profileScreen' = [profileScreen EXCEPT !.name = text]
    /\ UNCHANGED <<profiles, companies, setup>>
    /\ OutsideCompany

\* onChangeText of the edit form's input 'Description *'
setEditDescription(text) ==
    /\ profileScreen.mounted
    /\ ~profileScreen.loading
    /\ profileScreen.isEditing
    /\ text # profileScreen.description
    /\ profileScreen' = [profileScreen EXCEPT !.description = text]
    /\ UNCHANGED <<profiles, companies, setup>>
    /\ OutsideCompany

\* handleCancel: the form goes back to the values of company, when there
\* is one, and setIsEditing(false)
handleCancel ==
    /\ profileScreen.mounted
    /\ ~profileScreen.loading
    /\ profileScreen.isEditing
    /\ profileScreen' =
          IF profileScreen.company # NoCompany
          THEN [profileScreen EXCEPT
                  !.name = profileScreen.company.name,
                  !.description = profileScreen.company.description,
                  !.isEditing = FALSE]
          ELSE [profileScreen EXCEPT !.isEditing = FALSE]
    /\ UNCHANGED <<profiles, companies, setup>>
    /\ OutsideCompany

\* handleSave up to its await: setSaving(true), and the update or the insert
\* is sent with the trimmed values of the form.
handleSave ==
    /\ profileScreen.mounted
    /\ ~profileScreen.loading
    /\ profileScreen.isEditing
    /\ Len(companies) + SavesInFlight < MaxCompanies
    /\ profileScreen' =
          [profileScreen EXCEPT
             !.saving = TRUE,
             !.saves = Append(@, SaveCall("write", Trim(profileScreen.name),
                                          Trim(profileScreen.description),
                                          profileScreen.company.id))]
    /\ UNCHANGED <<profiles, companies, setup>>
    /\ OutsideCompany

\* The update by company.id, or the insert when company is null, comes back;
\* after a success loadCompany is called (setLoading(true)), after an error
\* the catch logs it and finally { setSaving(false) }.
handleSaveWrite(n, res) ==
    /\ n \in 1..Len(profileScreen.saves)
    /\ profileScreen.saves[n].pc = "write"
    /\ LET call == profileScreen.saves[n] IN
       IF res = <<>>
       THEN /\ companies' =
                  IF call.id # NoId
                  THEN [companies EXCEPT
                          ![call.id].name = call.name,
                          ![call.id].description = call.description]
                  ELSE Append(companies,
                              [CompanyRow(Owner, call.name) EXCEPT
                                 !.description = call.description])
            /\ profileScreen' =
                  IF call.live
                  THEN [profileScreen EXCEPT !.loading = TRUE,
                                             !.saves[n].pc = "reload"]
                  ELSE [profileScreen EXCEPT !.saves[n].pc = "reload"]
       ELSE /\ profileScreen' =
                  IF call.live
                  THEN [profileScreen EXCEPT !.saving = FALSE,
                                             !.saves = Without(@, n)]
                  ELSE [profileScreen EXCEPT !.saves = Without(@, n)]
            /\ UNCHANGED companies
    /\ UNCHANGED <<profiles, setup>>
    /\ OutsideCompany

\* The select of the loadCompany handleSave awaits comes back, and handleSave
\* ends: setIsEditing(false), and finally { setSaving(false) }.
handleSaveReload(n, ok) ==
    /\ n \in 1..Len(profileScreen.saves)
    /\ profileScreen.saves[n].pc = "reload"
    /\ profileScreen' =
          IF profileScreen.saves[n].live
          THEN [CompanyLoaded(profileScreen, ok) EXCEPT
                  !.isEditing = FALSE, !.saving = FALSE,
                  !.saves = Without(@, n)]
          ELSE [profileScreen EXCEPT !.saves = Without(@, n)]
    /\ UNCHANGED <<profiles, companies, setup>>
    /\ OutsideCompany

\* EmployerLayout stops rendering its Tabs (the resolver is loading, or the
\* user is no longer an authenticated employer): every screen of the
\* section is taken down, whatever it is doing; the saves in flight go on
\* without their screen (a load in flight only reads, and its setters do
\* nothing).
EmployerProfileLeave ==
    /\ profileScreen.mounted \/ setup.mounted
    /\ profileScreen' = [ProfileOff EXCEPT
                           !.saves = Orphaned(profileScreen.saves)]
    /\ setup' = [SetupOff EXCEPT !.saves = Orphaned(setup.saves)]
    /\ UNCHANGED <<profiles, companies>>
    /\ OutsideCompany

\* A signed-in employer who has no company yet, or has one.
CompanyInit ==
    /\ AuthAtRest("new@x", "employer", "/employer/profile")
    /\ profiles = {}
    /\ applications = <<>>
    /\ companies \in {<<>>, <<CompanyRow(Owner, "Acme")>>}
    /\ updatePolicy = TRUE
    /\ SubmitAtRest
    /\ ReviewAtRest
    /\ FetchAtRest
    /\ CompanyAtRest
    /\ HooksAtRest
    /\ ScreensAtRest

SaveNos == 1..MaxCompanies

CompanyNext ==
    \/ CompanySetupMount
    \/ \E u \in {Owner, Null} : loadExistingCompanyGetUser(u)
    \/ \E ok \in BOOLEAN : loadExistingCompany(ok)
    \/ \E text \in CompanyTexts : setCompanyName(text)
    \/ \E text \in CompanyDescriptions : setCompanyDescription(text)
    \/ handleSaveCompany
    \/ \E n \in SaveNos, u \in {Owner, Null} : saveCompanyGetUser(n, u)
    \/ \E n \in SaveNos, ok \in BOOLEAN : saveCompanyProfileSelect(n, ok)
    \/ \E n \in SaveNos, ok \in BOOLEAN : saveCompanyProfileInsert(n, ok)
    \/ \E n \in SaveNos, res \in DbResults : saveCompanyWrite(n, res)
    \/ EditCompanyInfo
    \/ CompanySetupLeave
    \/ EmployerProfileMount
    \/ \E ok \in BOOLEAN : loadCompany(ok)
    \/ EditCompanyProfile
    \/ \E text \in CompanyTexts : setEditName(text)
    \/ \E text \in CompanyDescriptions : setEditDescription(text)
    \/ handleCancel
    \/ handleSave
    \/ \E n \in SaveNos, res \in DbResults : handleSaveWrite(n, res)
    \/ \E n \in SaveNos, ok \in BOOLEAN : handleSaveReload(n, ok)
    \/ EmployerProfileLeave

CompanySpec == CompanyInit /\ [][CompanyNext]_vars

----------------------------------------------------------------------------
(* The applications list fetch: useApplications(filters, signal).           *)

OutsideFetch ==
    UNCHANGED <<authVars, submitVars, applications, reviewVars, companyVars,
                hookVars, screenVars>>

Reverse(seq) == [k \in 1..Len(seq) |-> seq[Len(seq) + 1 - k]]

\* The rows the query selects: the student's applications, those of one job
\* when the filter names it, newest first.
ListData(filter) ==
    LET Wanted(r) == /\ r.student_user_id = Student
                     /\ (filter = Null \/ r.job_id = filter)
    IN Reverse(SelectSeq(applications, Wanted))

\* What the awaited query yields once the signal has fired, depending on the
\* client library: it rejects with the fetch's AbortError, or it resolves
\* with the abort reported in the result's error field.
AbortOutcomes ==
    { [thrown |-> TRUE, isError |-> TRUE, name |-> "AbortError",
       message |-> "The user aborted a request."],
      [thrown |-> FALSE, isError |-> FALSE, name |-> "",
       message |-> "AbortError: The user aborted a request."] }

\* A call of loadApplications in flight: the filter it was created with,
\* where it stands, and whether the hook that started it is still there.
LoadCall(filter) == [pc |-> "getUser", filter |-> filter, live |-> TRUE]

\* setError(null); setLoading(true) and the first await of loadApplications
loadApplicationsStart(f, filter) ==
    [f EXCEPT !.error = Null, !.loading = TRUE,
              !.loads = Append(@, LoadCall(filter))]

\* The view mounts; the hook's effect calls loadApplications. Calls a former
\* view left in flight go on.
useApplicationsMount(filter) ==
    /\ ~fetch.mounted
    /\ Len(fetch.loads) < MaxLoads
    /\ fetch' = loadApplicationsStart(
                   [FetchOff EXCEPT !.mounted = TRUE, !.filter = filter,
                                    !.loads = fetch.loads],
                   filter)
    /\ UNCHANGED aborted
    /\ OutsideFetch

\* The view renders the hook with another filters.jobId: loadApplications is
\* created anew and the effect calls it.
useApplicationsFilters(filter) ==
    /\ fetch.mounted
    /\ filter # fetch.filter
    /\ Len(fetch.loads) < MaxLoads
    /\ fetch' = loadApplicationsStart([fetch EXCEPT !.filter = filter],
                                      filter)
    /\ UNCHANGED aborted
    /\ OutsideFetch

\* refresh()
refresh ==
    /\ fetch.mounted
    /\ Len(fetch.loads) < MaxLoads
    /\ fetch' = loadApplicationsStart(fetch, fetch.filter)
    /\ UNCHANGED aborted
    /\ OutsideFetch

\* The consuming view fires the cancellation signal.
AbortFires ==
    /\ fetch.mounted
    /\ ~aborted
    /\ aborted' = TRUE
    /\ UNCHANGED fetch
    /\ OutsideFetch

\* The n-th call ends and leaves the hook's state as f, when the hook is
\* still there; the setters of a hook that is gone do nothing.
loadApplicationsEnd(n, f) ==
    fetch' = IF fetch.loads[n].live
             THEN [f EXCEPT !.loading = FALSE, !.loads = Without(@, n)]
             ELSE [fetch EXCEPT !.loads = Without(@, n)]

\* const { data: { user } } = await supabase.auth.getUser();
\* if (!user) { setApplications([]); return }, then finally.
loadApplicationsGetUser(n, u) ==
    /\ n \in 1..Len(fetch.loads)
    /\ fetch.loads[n].pc = "getUser"
    /\ IF u = Null
       THEN loadApplicationsEnd(n, [fetch EXCEPT !.applications = <<>>])
       ELSE fetch' = [fetch EXCEPT !.loads[n].pc = "query"]
    /\ UNCHANGED aborted
    /\ OutsideFetch

\* The catch block: an Error named AbortError is dropped, anything else is
\* recorded; then finally { setLoading(false) }.
loadApplicationsCatch(n, err) ==
    loadApplicationsEnd(n,
        IF err.isError /\ err.name = "AbortError"
        THEN fetch
        ELSE [fetch EXCEPT
                !.error = ErrorText(err, "Failed to load applications")])

\* const { data, error } = await query.abortSignal(signal);
\* if (error) throw error; setApplications(data)
loadApplicationsQuery(n, res) ==
    /\ n \in 1..Len(fetch.loads)
    /\ fetch.loads[n].pc = "query"
    /\ IF aborted
       THEN \E out \in AbortOutcomes : loadApplicationsCatch(n, out)
       ELSE IF res = <<>>
            THEN loadApplicationsEnd(n,
                    [fetch EXCEPT
                       !.applications = ListData(fetch.loads[n].filter)])
            ELSE loadApplicationsCatch(n,
                    [thrown |-> FALSE, isError |-> res[1].isError,
                     name |-> "", message |-> res[1].message])
    /\ UNCHANGED aborted
    /\ OutsideFetch

\* The view is gone, and the calls in flight go on without it; a later visit
\* mounts the hook anew with a new signal.
useApplicationsUnmount ==
    /\ fetch.mounted
    /\ fetch' = [FetchOff EXCEPT !.loads = Orphaned(fetch.loads)]
    /\ aborted' = FALSE
    /\ OutsideFetch

\* Tables a student can have filled through the submission flow and the
\* employer's decisions.
FetchTables ==
    { <<>>,
      <<ApplicationRow("job-1", Student, "submitted")>>,
      <<ApplicationRow("job-1", Student, "accepted"),
        ApplicationRow("job-2", Student, "submitted")>> }

FetchInit ==
    /\ AuthAtRest("stu@x", "student", "/student")
    /\ profiles = {Student}
    /\ applications \in FetchTables
    /\ companies = <<CompanyRow(Owner, "Acme")>>
    /\ updatePolicy = TRUE
    /\ SubmitAtRest
    /\ ReviewAtRest
    /\ FetchAtRest
    /\ CompanyAtRest
    /\ HooksAtRest
    /\ ScreensAtRest

FetchNext ==
    \/ \E filter \in Jobs \cup {Null} : useApplicationsMount(filter)
    \/ \E filter \in Jobs \cup {Null} : useApplicationsFilters(filter)
    \/ refresh
    \/ AbortFires
    \/ \E n \in LoadNos, u \in {Student, Null} : loadApplicationsGetUser(n, u)
    \/ \E n \in LoadNos, res \in DbResults : loadApplicationsQuery(n, res)
    \/ useApplicationsUnmount

FetchSpec == FetchInit /\ [][FetchNext]_vars

----------------------------------------------------------------------------
(* useProfile and useCheckApplication. useProfile reads the user from the   *)
(* auth context; its effect runs loadProfile whenever the user changes.     *)

OutsideHooks ==
    UNCHANGED <<submitVars, applications, reviewVars, fetchVars, companyVars,
                screenVars>>

\* The id column of the signed-in user.
IdOf(u) ==
    IF u = <<>> THEN Null
    ELSE CASE u[1].email = "stu@x" -> Student
           [] u[1].email = "new@x" -> Owner
           [] OTHER -> Outsider

\* A call of loadProfile or updateProfile in flight: the user of the render
\* it was created in, and whether the hook that started it is still there.
ProfileCall(kind, uid) == [kind |-> kind, uid |-> uid, live |-> TRUE]

\* loadProfile up to its await, called for the user uid of the render it
\* was created in: without a user setProfile(null) and setLoading(false);
\* with one setError(null), setLoading(true) and the select is sent.
loadProfile(h, uid) ==
    IF uid = Null
    THEN [h EXCEPT !.seen = uid, !.profile = Null, !.loading = FALSE]
    ELSE [h EXCEPT !.seen = uid, !.error = Null, !.loading = TRUE,
                   !.calls = Append(@, ProfileCall("load", uid))]

\* The hook is mounted; its effect calls loadProfile. Calls a former view
\* left in flight go on.
useProfileMount ==
    /\ ~profileHook.mounted
    /\ Len(profileHook.calls) < MaxLoads
    /\ profileHook' =
          loadProfile([ProfileHookOff EXCEPT !.mounted = TRUE,
                                             !.calls = profileHook.calls],
                      IdOf(user))
    /\ UNCHANGED <<authVars, check>>
    /\ OutsideHooks

\* useEffect(() => { loadProfile() }, [loadProfile]): runs after the user
\* of the context has changed.
useProfileEffect ==
    /\ profileHook.mounted
    /\ profileHook.seen # IdOf(user)
    /\ Len(profileHook.calls) < MaxLoads
    /\ profileHook' = loadProfile(profileHook, IdOf(user))
    /\ UNCHANGED <<authVars, check>>
    /\ OutsideHooks

\* refreshProfile, called by the screen that uses the hook.
refreshProfile ==
    /\ profileHook.mounted
    /\ profileHook.seen = IdOf(user)
    /\ Len(profileHook.calls) < MaxLoads
    /\ profileHook' = loadProfile(profileHook, IdOf(user))
    /\ UNCHANGED <<authVars, check>>
    /\ OutsideHooks

\* updateProfile(data) up to its await, called by the screen that uses the
\* hook: without a user it throws at once; with one setError(null) and the
\* update is sent.
updateProfile ==
    /\ profileHook.mounted
    /\ profileHook.seen = IdOf(user)
    /\ IdOf(user) # Null
    /\ Len(profileHook.calls) < MaxLoads
    /\ profileHook' =
          [profileHook EXCEPT
             !.error = Null,
             !.calls = Append(@, ProfileCall("update", IdOf(user)))]
    /\ UNCHANGED <<authVars, check>>
    /\ OutsideHooks

\* The n-th call ends and leaves the hook's state as h, when the hook is
\* still there; the setters of a hook that is gone do nothing.
profileCallEnd(n, h) ==
    profileHook' = IF profileHook.calls[n].live
                   THEN [h EXCEPT !.calls = Without(@, n)]
                   ELSE [profileHook EXCEPT !.calls = Without(@, n)]

\* The select of a loadProfile comes back: maybeSingle() yields the row or
\* null; setProfile(data), or the catch's setError; finally
\* setLoading(false).
loadProfileSettle(n, res) ==
    /\ n \in 1..Len(profileHook.calls)
    /\ profileHook.calls[n].kind = "load"
    /\ LET uid == profileHook.calls[n].uid IN
       profileCallEnd(n,
          IF res = <<>>
          THEN [profileHook EXCEPT
                  !.profile = IF uid \in profiles THEN uid ELSE Null,
                  !.loading = FALSE]
          ELSE [profileHook EXCEPT
                  !.error = ErrorText(res[1], "Failed to load profile"),
                  !.loading = FALSE])
    /\ UNCHANGED <<authVars, check>>
    /\ OutsideHooks

\* The update of an updateProfile comes back: .select().single() yields the
\* updated row, or an error when no row was updated; setProfile(row), or
\* the catch's setError.
updateProfileSettle(n, res) ==
    /\ n \in 1..Len(profileHook.calls)
    /\ profileHook.calls[n].kind = "update"
    /\ LET uid == profileHook.calls[n].uid IN
       profileCallEnd(n,
          IF res # <<>>
          THEN [profileHook EXCEPT
                  !.error = ErrorText(res[1], "Failed to update profile")]
          ELSE IF uid \in profiles
               THEN [profileHook EXCEPT !.profile = uid]
               ELSE [profileHook EXCEPT
                       !.error = "Failed to update profile"])
    /\ UNCHANGED <<authVars, check>>
    /\ OutsideHooks

\* The view that uses the hook is left; the calls in flight go on without
\* it.
useProfileUnmount ==
    /\ profileHook.mounted
    /\ profileHook' = [ProfileHookOff EXCEPT
                         !.calls = Orphaned(profileHook.calls)]
    /\ UNCHANGED <<authVars, check>>
    /\ OutsideHooks

\* The session is lost (signed out elsewhere, expired): the event is emitted
\* and, in a later step, handled by useAuth's listener.
HookSessionEnds ==
    /\ AuthEvent("SIGNED_OUT")
    /\ UNCHANGED <<mounted, signOutDialog, hookVars>>
    /\ OutsideHooks

HookAuthStateChange ==
    /\ onAuthStateChange
    /\ UNCHANGED <<mounted, signOutDialog, hookVars>>
    /\ OutsideHooks

\* checkApplication up to its first await, for the job id of the render the
\* effect ran in: without a job id it returns at once.
checkApplication(c, jobId) ==
    IF jobId = ""
    THEN [c EXCEPT !.jobId = jobId]
    ELSE [c EXCEPT !.jobId = jobId,
                   !.calls = Append(@, [pc |-> "getUser", jobId |-> jobId,
                                        live |-> TRUE])]

\* useCheckApplication(jobId) is mounted and its effect runs
\* checkApplication. Calls a former view left in flight go on.
useCheckApplicationMount(jobId) ==
    /\ ~check.mounted
    /\ Len(check.calls) < MaxLoads
    /\ check' = checkApplication([CheckOff EXCEPT !.mounted = TRUE,
                                                  !.calls = check.calls],
                                 jobId)
    /\ UNCHANGED <<authVars, profileHook>>
    /\ OutsideHooks

\* The view renders the hook with another jobId: the effect runs again.
useCheckApplicationEffect(jobId) ==
    /\ check.mounted
    /\ jobId # check.jobId
    /\ Len(check.calls) < MaxLoads
    /\ check' = checkApplication(check, jobId)
    /\ UNCHANGED <<authVars, profileHook>>
    /\ OutsideHooks

\* The n-th call ends and leaves the hook's state as c, when the hook is
\* still there.
checkApplicationEnd(n, c) ==
    check' = IF check.calls[n].live
             THEN [c EXCEPT !.loading = FALSE, !.calls = Without(@, n)]
             ELSE [check EXCEPT !.calls = Without(@, n)]

\* const { data: { user } } = await supabase.auth.getUser()
checkApplicationGetUser(n, u) ==
    /\ n \in 1..Len(check.calls)
    /\ check.calls[n].pc = "getUser"
    /\ IF u = Null
       THEN checkApplicationEnd(n, [check EXCEPT !.hasApplied = FALSE])
       ELSE check' = [check EXCEPT !.calls[n].pc = "query"]
    /\ UNCHANGED <<authVars, profileHook>>
    /\ OutsideHooks

\* The select('id') ... limit(1) comes back: setHasApplied(data.length > 0),
\* or the catch's setError; finally setLoading(false).
checkApplicationQuery(n, res) ==
    /\ n \in 1..Len(check.calls)
    /\ check.calls[n].pc = "query"
    /\ checkApplicationEnd(n,
          IF res = <<>>
          THEN [check EXCEPT
                  !.hasApplied =
                     (ApplicationsOf(check.calls[n].jobId, Student) # {})]
          ELSE [check EXCEPT
                  !.error = ErrorText(res[1],
                                      "Failed to check application status")])
    /\ UNCHANGED <<authVars, profileHook>>
    /\ OutsideHooks

\* The view that uses the hook is left; the calls in flight go on without
\* it.
useCheckApplicationUnmount ==
    /\ check.mounted
    /\ check' = [CheckOff EXCEPT !.calls = Orphaned(check.calls)]
    /\ UNCHANGED <<authVars, profileHook>>
    /\ OutsideHooks

\* A signed-in student, with or without a profile row and applications.
HookInit ==
    /\ AuthAtRest("stu@x", "student", "/student/profile")
    /\ profiles \in {{}, {Student}}
    /\ applications \in FetchTables
    /\ companies = <<CompanyRow(Owner, "Acme")>>
    /\ updatePolicy = TRUE
    /\ SubmitAtRest
    /\ ReviewAtRest
    /\ FetchAtRest
    /\ CompanyAtRest
    /\ HooksAtRest
    /\ ScreensAtRest

HookNext ==
    \/ useProfileMount
    \/ useProfileEffect
    \/ refreshProfile
    \/ updateProfile
    \/ \E n \in LoadNos, res \in DbResults : loadProfileSettle(n, res)
    \/ \E n \in LoadNos, res \in DbResults : updateProfileSettle(n, res)
    \/ useProfileUnmount
    \/ HookSessionEnds
    \/ HookAuthStateChange
    \/ \E jobId \in Jobs \cup {""} : useCheckApplicationMount(jobId)
    \/ \E jobId \in Jobs \cup {""} : useCheckApplicationEffect(jobId)
    \/ \E n \in LoadNos, u \in {Student, Null} : checkApplicationGetUser(n, u)
    \/ \E n \in LoadNos, res \in DbResults : checkApplicationQuery(n, res)
    \/ useCheckApplicationUnmount

HookSpec == HookInit /\ [][HookNext]_vars

\* Every backend call comes back, every event is delivered and every effect
\* runs; what the user does is left open.
HookLiveSpec ==
    /\ HookSpec
    /\ WF_vars(useProfileEffect)
    /\ WF_vars(\E n \in LoadNos, res \in DbResults :
                  loadProfileSettle(n, res))
    /\ WF_vars(\E n \in LoadNos, res \in DbResults :
                  updateProfileSettle(n, res))
    /\ WF_vars(HookAuthStateChange)
    /\ WF_vars(\E n \in LoadNos, u \in {Student, Null} :
                  checkApplicationGetUser(n, u))
    /\ WF_vars(\E n \in LoadNos, res \in DbResults :
                  checkApplicationQuery(n, res))

----------------------------------------------------------------------------
(* The employer's list screens: ApplicantsScreen, which lists the           *)
(* applications of one job, and EmployerApplicationsScreen, which lists     *)
(* those of the employer's jobs. The model follows one of them at a time.   *)

OutsideScreens ==
    UNCHANGED <<authVars, submitVars, fetchVars, companyVars, hookVars,
                updates, lastUpdate, reloading>>

\* The k-th largest element of a set of row ids.
NthLargest(S, n) == CHOOSE k \in S : Cardinality({j \in S : j > k}) = n - 1

\* What the screen's select returns: the rows of the job shown, or of the
\* jobs of the employer's company, newest first.
Listed(kind) ==
    LET S == IF kind = "applicants"
             THEN {k \in 1..Len(applications) :
                     applications[k].job_id \in ReviewJobs}
             ELSE {k \in 1..Len(applications) :
                     companies[JobCompany(applications[k].job_id)]
                        .owner_user_id = Owner}
    IN [n \in 1..Cardinality(S) |->
          [id |-> NthLargest(S, n),
           status |-> applications[NthLargest(S, n)].status]]

\* The screen is opened; its effect calls loadApplications, which on
\* EmployerApplicationsScreen first runs setLoading(true), setError(null).
\* Calls a former visit left in flight go on.
ListScreenMount(kind) ==
    /\ listScreen.kind = Null
    /\ Len(listScreen.loads) < MaxLoads
    /\ listScreen' = [ListOff EXCEPT
                        !.kind = kind,
                        !.loads = Append(listScreen.loads, [live |-> TRUE]),
                        !.updates = listScreen.updates]
    /\ UNCHANGED <<applications, updatePolicy, newJob, jobs>>
    /\ OutsideScreens

\* The button 'Retry' of EmployerApplicationsScreen, shown in place of the
\* list while error is set: loadApplications up to its await.
retryLoadApplications ==
    /\ listScreen.kind = "applications"
    /\ ~listScreen.loading
    /\ listScreen.error # Null
    /\ Len(listScreen.loads) < MaxLoads
    /\ listScreen' = [listScreen EXCEPT
                        !.loading = TRUE, !.error = Null,
                        !.loads = Append(@, [live |-> TRUE])]
    /\ UNCHANGED <<applications, updatePolicy, newJob, jobs>>
    /\ OutsideScreens

\* The rows a button of the screen can be pressed for, with the status the
\* press asks for: Accept and Reject on a submitted row; on
\* ApplicantsScreen also 'Change to ...' on a decided one.
Buttons(ls) ==
    {b \in (1..MaxApps) \X Decisions :
        \E n \in 1..Len(ls.applications) :
           /\ ls.applications[n].id = b[1]
           /\ \/ ls.applications[n].status = "submitted"
              \/ /\ ls.kind = "applicants"
                 /\ ls.applications[n].status # b[2]}

\* updateApplicationStatus(id, st) up to its first await: on
\* ApplicantsScreen setUpdatingStatus(id), and getUser is awaited first.
UpdateStarted(ls, id, st) ==
    [ls EXCEPT
       !.updatingStatus = IF ls.kind = "applicants" THEN id ELSE @,
       !.updates = Append(@, [kind |-> ls.kind, id |-> id, status |-> st,
                              pc |-> IF ls.kind = "applicants"
                                     THEN "getUser" ELSE "update",
                              live |-> TRUE])]

\* Variant: a press disables the buttons of its own row only.
onPress_ownRowOnly(id, st) ==
    /\ listScreen.kind # Null
    /\ ~listScreen.loading
    /\ listScreen.error = Null
    /\ <<id, st>> \in Buttons(listScreen)
    /\ Len(listScreen.updates) < MaxUpdates
    /\ \A n \in 1..Len(listScreen.updates) :
          listScreen.updates[n].live => listScreen.updates[n].id # id
    /\ listScreen' = UpdateStarted(listScreen, id, st)
    /\ UNCHANGED <<applications, updatePolicy, newJob, jobs>>
    /\ OutsideScreens

\* A button of a row is pressed. The list is rendered when loading is false
\* and, on EmployerApplicationsScreen, error is null; ApplicantsScreen
\* disables every button while updatingStatus is set;
\* EmployerApplicationsScreen has no such marker.
onPress(id, st) ==
    /\ listScreen.kind # Null
    /\ ~listScreen.loading
    /\ listScreen.error = Null
    /\ <<id, st>> \in Buttons(listScreen)
    /\ Len(listScreen.updates) < MaxUpdates
    /\ listScreen.kind = "applicants" => listScreen.updatingStatus = NoId
    /\ listScreen' = UpdateStarted(listScreen, id, st)
    /\ UNCHANGED <<applications, updatePolicy, newJob, jobs>>
    /\ OutsideScreens

\* The n-th update ends and leaves the screen as ls, when the screen is
\* still there: on ApplicantsScreen finally { setUpdatingStatus(null) }.
\* The setters of a screen that is gone do nothing.
UpdateEnds(n, ls) ==
    IF listScreen.updates[n].live
    THEN [ls EXCEPT !.updates = Without(@, n),
                    !.updatingStatus = IF ls.kind = "applicants"
                                       THEN NoId ELSE @]
    ELSE [listScreen EXCEPT !.updates = Without(@, n)]

\* The handler of the n-th update ends in its catch, which only logs.
UpdateFailed(n) == UpdateEnds(n, [listScreen EXCEPT !.logged = "Error"])

\* ApplicantsScreen: const { data: { user }, error: authError } =
\* await supabase.auth.getUser(); an authError is thrown.
updateGetUser(n, ok) ==
    /\ n \in 1..Len(listScreen.updates)
    /\ listScreen.updates[n].pc = "getUser"
    /\ listScreen' = IF ok
                     THEN [listScreen EXCEPT !.updates[n].pc = "update"]
                     ELSE UpdateFailed(n)
    /\ UNCHANGED <<applications, updatePolicy, newJob, jobs>>
    /\ OutsideScreens

\* The update({ status }).eq('id', id) comes back. ApplicantsScreen asked
\* for the updated rows and throws on an error and on no rows;
\* EmployerApplicationsScreen throws on an error only. Then
\* await loadApplications(), up to its await.
updateWrite(n, res) ==
    /\ n \in 1..Len(listScreen.updates)
    /\ listScreen.updates[n].pc = "update"
    /\ LET u == listScreen.updates[n]
           rows == IF res = <<>> /\ MayUpdate(Owner, u.id) THEN 1 ELSE 0
       IN /\ applications' = IF rows = 1
                             THEN [applications EXCEPT ![u.id].status = u.status]
                             ELSE applications
          /\ listScreen' =
                IF res # <<>> \/ (u.kind = "applicants" /\ rows = 0)
                THEN UpdateFailed(n)
                ELSE IF u.live
                     THEN [listScreen EXCEPT
                             !.updates[n].pc = "reload",
                             !.logged = "Success",
                             !.loading = IF u.kind = "applications"
                                         THEN TRUE ELSE @,
                             !.error = Null]
                     ELSE [listScreen EXCEPT !.updates[n].pc = "reload"]
    /\ UNCHANGED <<updatePolicy, newJob, jobs>>
    /\ OutsideScreens

\* What a loadApplications call does with its result: setApplications(data)
\* or, in the catch, a console line and, on EmployerApplicationsScreen,
\* setError; finally setLoading(false).
Loaded(ls, res) ==
    IF res = <<>>
    THEN [ls EXCEPT !.applications = Listed(ls.kind), !.loading = FALSE]
    ELSE [ls EXCEPT !.loading = FALSE, !.logged = "Error",
                    !.error = IF ls.kind = "applications"
                              THEN ErrorText(res[1],
                                             "Failed to load applications")
                              ELSE @]

\* The n-th loadApplications call of the effect, or of Retry, comes back.
loadApplicationsSettle(n, res) ==
    /\ n \in 1..Len(listScreen.loads)
    /\ listScreen' =
          IF listScreen.loads[n].live
          THEN [Loaded(listScreen, res) EXCEPT !.loads = Without(@, n)]
          ELSE [listScreen EXCEPT !.loads = Without(@, n)]
    /\ UNCHANGED <<applications, updatePolicy, newJob, jobs>>
    /\ OutsideScreens

\* The loadApplications call awaited by updateApplicationStatus comes back
\* and the handler ends.
updateReload(n, res) ==
    /\ n \in 1..Len(listScreen.updates)
    /\ listScreen.updates[n].pc = "reload"
    /\ listScreen' = UpdateEnds(n, Loaded(listScreen, res))
    /\ UNCHANGED <<applications, updatePolicy, newJob, jobs>>
    /\ OutsideScreens

\* The employer decides an application on another device.
OtherDecides(id, st) ==
    /\ id \in 1..Len(applications)
    /\ applications[id].status # st
    /\ updatePolicy
    /\ applications' = [applications EXCEPT ![id].status = st]
    /\ UNCHANGED <<updatePolicy, listScreen, newJob, jobs>>
    /\ OutsideScreens

\* The screen is left by a link of its own: the back button of
\* ApplicantsScreen, rendered once loading is false, or 'View Details' and
\* 'View My Jobs' of EmployerApplicationsScreen, rendered with the list or
\* the empty view but not with the error view. The calls in flight go on
\* without it.
ListScreenLeave ==
    /\ listScreen.kind # Null
    /\ ~listScreen.loading
    /\ listScreen.kind = "applications" => listScreen.error = Null
    /\ listScreen' = [ListOff EXCEPT
                        !.loads = Orphaned(listScreen.loads),
                        !.updates = Orphaned(listScreen.updates)]
    /\ UNCHANGED <<applications, updatePolicy, newJob, jobs>>
    /\ OutsideScreens

\* The signed-in owner of the company; one job with two applications.
ScreenInit ==
    /\ AuthAtRest("new@x", "employer", "/employer")
    /\ profiles = {Student}
    /\ applications = <<ApplicationRow("job-1", Student, "submitted"),
                        ApplicationRow("job-1", Student, "submitted")>>
    /\ companies = <<CompanyRow(Owner, "Acme")>>
    /\ updatePolicy \in BOOLEAN
    /\ SubmitAtRest
    /\ ReviewAtRest
    /\ FetchAtRest
    /\ CompanyAtRest
    /\ HooksAtRest
    /\ ScreensAtRest

UpdateNos == 1..MaxUpdates

ScreenNext ==
    \/ \E kind \in Screens : ListScreenMount(kind)
    \/ retryLoadApplications
    \/ \E id \in 1..MaxApps, st \in Decisions : onPress(id, st)
    \/ \E n \in UpdateNos, ok \in BOOLEAN : updateGetUser(n, ok)
    \/ \E n \in UpdateNos, res \in DbResults : updateWrite(n, res)
    \/ \E n \in UpdateNos, res \in DbResults : updateReload(n, res)
    \/ \E n \in LoadNos, res \in DbResults : loadApplicationsSettle(n, res)
    \/ \E id \in 1..MaxApps, st \in Decisions : OtherDecides(id, st)
    \/ ListScreenLeave

ScreenSpec == ScreenInit /\ [][ScreenNext]_vars

----------------------------------------------------------------------------
(* NewJobScreen: the employer posts a job. createJob and uploadImages are   *)
(* the calls of useCreateJob and useUploadJobImages; each either resolves   *)
(* or throws, and a resolved createJob has inserted the row it was given.   *)

OutsideNewJob ==
    UNCHANGED <<authVars, submitVars, fetchVars, companyVars, hookVars,
                applications, reviewVars, listScreen>>

\* companies.id of the k-th row, as the text the screen holds.
CompanyUuid == <<"company-1", "company-2", "company-3">>

OwnedCompanyIds == {CompanyUuid[k] : k \in CompaniesOf(Owner)}

\* What the screen's text fields hold in the model.
Titles == {"", "   ", "Dev", "Marketing Intern"}
Descriptions == {"", "Too short", "Help us with our marketing."}
Stipends == {"", "-5", "100"}

\* parseFloat on those texts.
ParseFloat(t) == CASE t = "-5" -> 0 - 5
                   [] t = "100" -> 100

\* The errors a failed companies query comes back with: no row (or several)
\* for .single(), a permission error by code, one by its message, another.
QueryErrors ==
    { [code |-> "PGRST116", message |-> "no rows returned"],
      [code |-> "PGRST301", message |-> "permission denied"],
      [code |-> "", message |-> "Request failed with status 406"],
      [code |-> "42501", message |-> "permission denied for table"] }

Includes406(message) == message = "Request failed with status 406"

\* resetFormState()
resetFormState(nj) ==
    [nj EXCEPT !.title = "", !.description = "", !.isPaid = FALSE,
               !.stipendAmount = "", !.selectedTags = 0,
               !.selectedImages = 0, !.errors = {}]

\* The screen is opened: the mount effect runs resetFormState() and
\* loadCompany(), up to its await of getUser(). Calls of handleSubmit and
\* pickImages a former visit left in flight go on.
NewJobMount ==
    /\ ~newJob.mounted
    /\ newJob' = [NewJobOff EXCEPT !.mounted = TRUE, !.loadPc = "getUser",
                                   !.posts = newJob.posts,
                                   !.picks = newJob.picks]
    /\ UNCHANGED jobs
    /\ OutsideNewJob

\* useFocusEffect: the screen, left for another one and still mounted, comes
\* into focus again: resetFormState()
NewJobFocus ==
    /\ newJob.mounted
    /\ newJob' = [resetFormState(newJob) EXCEPT !.sentTo = Null]
    /\ UNCHANGED jobs
    /\ OutsideNewJob

\* loadCompany: const { data: { user } } = await supabase.auth.getUser();
\* if (!user) return; and finally setLoadingCompany(false).
newJobGetUser(u) ==
    /\ newJob.loadPc = "getUser"
    /\ newJob' = IF u = Null
                 THEN [newJob EXCEPT !.loadPc = "idle",
                                     !.loadingCompany = FALSE]
                 ELSE [newJob EXCEPT !.loadPc = "query", !.user = u]
    /\ UNCHANGED jobs
    /\ OutsideNewJob

\* What select('id').eq('owner_user_id', user.id).single() returns: the row
\* when exactly one matches and nothing went wrong, else an error, which is
\* PGRST116 when the number of rows is not one.
SingleCompany(u, fault) ==
    IF fault # <<>> THEN fault
    ELSE IF Cardinality(CompaniesOf(u)) = 1 THEN <<>>
    ELSE <<[code |-> "PGRST116", message |-> "no rows returned"]>>

\* loadCompany after the query came back.
newJobLoadCompany(fault) ==
    /\ newJob.loadPc = "query"
    /\ LET res == SingleCompany(newJob.user, fault)
           done == [newJob EXCEPT !.loadPc = "idle",
                                  !.loadingCompany = FALSE]
       IN newJob' =
            IF res = <<>>
            THEN [done EXCEPT
                    !.companyId = CompanyUuid[TheOne(CompaniesOf(newJob.user))]]
            ELSE IF res[1].code = "PGRST116"
            THEN [done EXCEPT !.sentTo = "/employer/company-setup"]
            ELSE IF res[1].code = "PGRST301" \/ Includes406(res[1].message)
            THEN [done EXCEPT !.companyId = "placeholder-company-id"]
            ELSE [done EXCEPT !.sentTo = "/employer/company-setup"]
    /\ UNCHANGED jobs
    /\ OutsideNewJob

\* The form is rendered once loadingCompany is false; a router.replace has
\* put another screen in its place.
FormShown ==
    /\ newJob.mounted
    /\ ~newJob.loadingCompany
    /\ newJob.sentTo = Null

\* onChangeText of 'Job Title *'
setTitle(text) ==
    /\ FormShown
    /\ text # newJob.title
    /\ newJob' = [newJob EXCEPT !.title = text, !.errors = @ \ {"title"}]
    /\ UNCHANGED jobs
    /\ OutsideNewJob

\* onChangeText of 'Job Description *'
setDescription(text) ==
    /\ FormShown
    /\ text # newJob.description
    /\ newJob' = [newJob EXCEPT !.description = text,
                                !.errors = @ \ {"description"}]
    /\ UNCHANGED jobs
    /\ OutsideNewJob

\* handleTagToggle(tag), with the one tag of the model
handleTagToggle ==
    /\ FormShown
    /\ newJob' = [newJob EXCEPT !.selectedTags = 1 - @,
                                !.errors = @ \ {"tags"}]
    /\ UNCHANGED jobs
    /\ OutsideNewJob

\* <Switch value={isPaid} onValueChange={setIsPaid} />
setIsPaid ==
    /\ FormShown
    /\ newJob' = [newJob EXCEPT !.isPaid = ~@]
    /\ UNCHANGED jobs
    /\ OutsideNewJob

\* onChangeText of 'Stipend Amount ($)', which is rendered when isPaid
setStipendAmount(text) ==
    /\ FormShown
    /\ newJob.isPaid
    /\ text # newJob.stipendAmount
    /\ newJob' = [newJob EXCEPT !.stipendAmount = text,
                                !.errors = @ \ {"stipend_amount"}]
    /\ UNCHANGED jobs
    /\ OutsideNewJob

\* 'Add Images' is pressed: pickImages up to its await of
\* requestMediaLibraryPermissionsAsync(). The button is disabled once five
\* images are selected, and by nothing else.
pickImages ==
    /\ FormShown
    /\ newJob.selectedImages < 5
    /\ newJob.selectedImages < MaxImages
    /\ Len(newJob.picks) < MaxPicks
    /\ newJob' = [newJob EXCEPT
                    !.picks = Append(@, [pc |-> "permission", live |-> TRUE])]
    /\ UNCHANGED jobs
    /\ OutsideNewJob

\* The permission request comes back: without the permission pickImages
\* logs and returns, else it awaits launchImageLibraryAsync().
pickImagesPermission(n, granted) ==
    /\ n \in 1..Len(newJob.picks)
    /\ newJob.picks[n].pc = "permission"
    /\ newJob' = IF granted
                 THEN [newJob EXCEPT !.picks[n].pc = "library"]
                 ELSE [newJob EXCEPT !.picks = Without(@, n)]
    /\ UNCHANGED jobs
    /\ OutsideNewJob

\* The picker comes back, canceled or with one image:
\* setSelectedImages(prev => [...prev, ...result.assets].slice(0, 5)),
\* whatever the screen shows by then. The setter of a screen that is gone
\* does nothing.
pickImagesResult(n, canceled) ==
    /\ n \in 1..Len(newJob.picks)
    /\ newJob.picks[n].pc = "library"
    /\ newJob' =
          IF ~canceled /\ newJob.picks[n].live
          THEN [newJob EXCEPT
                  !.picks = Without(@, n),
                  !.selectedImages = IF @ + 1 > 5 THEN 5 ELSE @ + 1]
          ELSE [newJob EXCEPT !.picks = Without(@, n)]
    /\ UNCHANGED jobs
    /\ OutsideNewJob

\* removeImage(index), by the button shown on each selected image
removeImage ==
    /\ FormShown
    /\ newJob.selectedImages > 0
    /\ newJob' = [newJob EXCEPT !.selectedImages = @ - 1]
    /\ UNCHANGED jobs
    /\ OutsideNewJob

\* validateForm(): the keys of newErrors.
validateForm(nj) ==
    {k \in {"title"} : Len(Trim(nj.title)) < 5}
       \cup {k \in {"description"} : Len(Trim(nj.description)) < 20}
       \cup {k \in {"tags"} : nj.selectedTags = 0}
       \cup {k \in {"stipend_amount"} :
               /\ nj.isPaid
               /\ nj.stipendAmount # ""
               /\ ParseFloat(nj.stipendAmount) < 0}

\* createLoading || uploadLoading: a createJob or an uploadImages call of
\* the screen is in flight.
Busy ==
    \E n \in 1..Len(newJob.posts) :
       newJob.posts[n].live /\ newJob.posts[n].pc \in {"create", "upload"}

\* 'Post Job' is pressed: handleSubmit up to its await of createJob, with
\* the company id, the form and the images of the render it was created in.
\* The button is disabled while a createJob or an uploadImages call is
\* loading.
postJob ==
    /\ FormShown
    /\ ~Busy
    /\ Len(jobs) + Len(newJob.posts) < MaxJobs
    /\ newJob' =
          IF newJob.companyId = Null
          THEN [newJob EXCEPT !.logged = "No company ID found"]
          ELSE IF validateForm(newJob) # {}
          THEN [newJob EXCEPT !.errors = validateForm(newJob),
                              !.logged = "Form validation failed"]
          ELSE [newJob EXCEPT
                  !.errors = {},
                  !.logged = "Calling createJob",
                  !.posts = Append(@,
                     [pc |-> "create",
                      jobData |-> [company_id |-> newJob.companyId,
                                   title |-> Trim(newJob.title)],
                      images |-> newJob.selectedImages,
                      job |-> NoId,
                      live |-> TRUE])]
    /\ UNCHANGED jobs
    /\ OutsideNewJob

\* handleSubmit returns after a failed createJob. The setters of a screen
\* that is gone do nothing.
postFailed(n) ==
    IF newJob.posts[n].live
    THEN [newJob EXCEPT !.posts = Without(@, n),
                        !.logged = "Job creation failed"]
    ELSE [newJob EXCEPT !.posts = Without(@, n)]

\* The end of handleSubmit after a created job: resetFormState() and
\* router.replace('/employer'). The setters of a screen that is gone do
\* nothing, but the router is the app's: the replace is carried out, on
\* whatever is open by then.
Posted(n, job, logged) ==
    IF newJob.posts[n].live
    THEN [resetFormState(newJob) EXCEPT
            !.posts = Without(@, n), !.job = job, !.logged = logged,
            !.sentTo = "/employer"]
    ELSE [newJob EXCEPT !.posts = Without(@, n), !.sentTo = "/employer"]

\* createJob(jobData) comes back: a throw is logged and handleSubmit returns;
\* else the files of the images are fetched if any was selected.
createJobSettle(n, ok) ==
    /\ n \in 1..Len(newJob.posts)
    /\ newJob.posts[n].pc = "create"
    /\ LET call == newJob.posts[n] IN
       IF ~ok
       THEN /\ newJob' = postFailed(n)
            /\ UNCHANGED jobs
       ELSE /\ jobs' = Append(jobs, [company_id |-> call.jobData.company_id,
                                     title |-> call.jobData.title,
                                     images |-> 0])
            /\ newJob' =
                  IF call.images > 0
                  THEN [newJob EXCEPT
                          !.posts[n].pc = "files",
                          !.posts[n].job = Len(jobs) + 1,
                          !.logged = IF call.live THEN "Uploading images"
                                     ELSE @]
                  ELSE Posted(n, Len(jobs) + 1, "Success")
    /\ OutsideNewJob

\* await Promise.all(selectedImages.map(...fetch(asset.uri)...)) comes back:
\* a throw is caught and warned about like one of the upload, else
\* uploadImages is called.
imageFilesSettle(n, ok) ==
    /\ n \in 1..Len(newJob.posts)
    /\ newJob.posts[n].pc = "files"
    /\ newJob' = IF ok
                 THEN [newJob EXCEPT !.posts[n].pc = "upload"]
                 ELSE Posted(n, newJob.posts[n].job, "Image upload failed")
    /\ UNCHANGED jobs
    /\ OutsideNewJob

\* Variant: a failed image upload ends handleSubmit like a failed createJob.
uploadImagesSettle_failStops(n, ok) ==
    /\ n \in 1..Len(newJob.posts)
    /\ newJob.posts[n].pc = "upload"
    /\ LET call == newJob.posts[n] IN
       IF ok
       THEN /\ jobs' = [jobs EXCEPT ![call.job].images = call.images]
            /\ newJob' = Posted(n, call.job, "Success")
       ELSE /\ newJob' = postFailed(n)
            /\ UNCHANGED jobs
    /\ OutsideNewJob

\* uploadImages(job.id, imageFiles) comes back: a throw is caught and
\* warned about, and handleSubmit goes on.
uploadImagesSettle(n, ok) ==
    /\ n \in 1..Len(newJob.posts)
    /\ newJob.posts[n].pc = "upload"
    /\ LET call == newJob.posts[n] IN
       /\ jobs' = IF ok
                  THEN [jobs EXCEPT ![call.job].images = call.images]
                  ELSE jobs
       /\ newJob' = Posted(n, call.job, IF ok THEN "Success"
                                        ELSE "Image upload failed")
    /\ OutsideNewJob

\* 'Cancel': router.back(), by a button of the form that is disabled while
\* createJob or uploadImages is loading. The screen is gone; the calls in
\* flight go on without it.
NewJobLeave ==
    /\ FormShown
    /\ ~Busy
    /\ newJob' = [NewJobOff EXCEPT !.posts = Orphaned(newJob.posts),
                                   !.picks = Orphaned(newJob.picks)]
    /\ UNCHANGED jobs
    /\ OutsideNewJob

\* The signed-in employer, with no company, one or two.
NewJobInit ==
    /\ AuthAtRest("new@x", "employer", "/employer")
    /\ profiles = {}
    /\ applications = <<>>
    /\ companies \in {<<>>, <<CompanyRow(Owner, "Acme")>>,
                      <<CompanyRow(Outsider, "Other"),
                        CompanyRow(Owner, "Acme")>>}
    /\ updatePolicy = TRUE
    /\ SubmitAtRest
    /\ ReviewAtRest
    /\ FetchAtRest
    /\ CompanyAtRest
    /\ HooksAtRest
    /\ ScreensAtRest

PostNos == 1..MaxJobs

PickNos == 1..MaxPicks

NewJobNext ==
    \/ NewJobMount
    \/ NewJobFocus
    \/ \E u \in {Owner, Null} : newJobGetUser(u)
    \/ \E fault \in {<<>>} \cup {<<e>> : e \in QueryErrors} :
          newJobLoadCompany(fault)
    \/ \E text \in Titles : setTitle(text)
    \/ \E text \in Descriptions : setDescription(text)
    \/ handleTagToggle
    \/ setIsPaid
    \/ \E text \in Stipends : setStipendAmount(text)
    \/ pickImages
    \/ \E n \in PickNos, granted \in BOOLEAN : pickImagesPermission(n, granted)
    \/ \E n \in PickNos, canceled \in BOOLEAN : pickImagesResult(n, canceled)
    \/ removeImage
    \/ postJob
    \/ \E n \in PostNos, ok \in BOOLEAN : createJobSettle(n, ok)
    \/ \E n \in PostNos, ok \in BOOLEAN : imageFilesSettle(n, ok)
    \/ \E n \in PostNos, ok \in BOOLEAN : uploadImagesSettle(n, ok)
    \/ NewJobLeave

NewJobSpec == NewJobInit /\ [][NewJobNext]_vars

----------------------------------------------------------------------------
(* Helpers of the properties.                                               *)

Statuses == {"loading", "unauthenticated", "authenticated"}
Roles == {"student", "employer", Null}
SectionPaths == StudentPaths \cup EmployerPaths

\* The raw role metadata of a user whose resolved role is r.
MetaOf(r) == IF r = Null THEN "undefined" ELSE r

\* The router.replace calls of every guard mounted at location p, each
\* guard's calls as one sequence: the root RouteGuard everywhere, a section
\* layout inside its section, the landing screen at home.
GuardCalls(st, r, l, userRole, p) ==
    {RouteGuard(st, r, p)}
    \cup (IF p \in EmployerPaths THEN {EmployerLayoutEffect(st, r, l)} ELSE {})
    \cup (IF p \in StudentPaths THEN {StudentLayoutEffect(st, r, l)} ELSE {})
    \cup (IF p = HomePath THEN {LandingScreenRedirect(st, userRole)} ELSE {})

\* The same, in the current state of the resolver, at location p.
GuardCallsNow(p) == GuardCalls(status, role, loading, UserRoleOf(user), p)

\* A step in which a guard's redirect changes the location.
GuardStep == path' # path /\ navBy' \in Guards

----------------------------------------------------------------------------
(* C1: the employer layout renders its screens exactly when status is       *)
(* authenticated and role is employer, the student layout exactly when      *)
(* status is authenticated and role is student; in every other state each   *)
(* shows only its loading or redirecting placeholder.                       *)
C1_LayoutsRenderOnlyOwnRole ==
    /\ (EmployerLayoutView(status, role, loading) = "Tabs")
          <=> (status = "authenticated" /\ role = "employer")
    /\ (StudentLayoutView(status, role, loading) = "Tabs")
          <=> (status = "authenticated" /\ role = "student")
    /\ EmployerLayoutView(status, role, loading)
          \in {"Tabs", "Loading...", "Redirecting..."}
    /\ StudentLayoutView(status, role, loading)
          \in {"Tabs", "Loading...", "Redirecting..."}

\* An authenticated student is on an employer path and sees the placeholder.
C1_Witness ==
    /\ path \in EmployerPaths
    /\ status = "authenticated"
    /\ role = "student"
    /\ EmployerLayoutView(status, role, loading) = "Redirecting..."

(* C2: for every status, role and path, every guard mounted at the path     *)
(* either allows (issues no redirect) or issues exactly one redirect, and   *)
(* at the redirect target every guard mounted there allows, with the same   *)
(* status and role: no redirect chain or loop.                              *)
C2_GuardTotalAndOneHop ==
    /\ \A st \in Statuses, r \in Roles, p \in Paths :
          \A q \in GuardCalls(st, r, st = "loading", MetaOf(r), p) :
             /\ Len(q) <= 1
             /\ q # <<>> =>
                   /\ q[1] \in Paths
                   /\ \A q2 \in GuardCalls(st, r, st = "loading", MetaOf(r),
                                           q[1]) : q2 = <<>>
    /\ \A p \in Paths :
          \A q \in GuardCallsNow(p) :
             /\ Len(q) <= 1
             /\ q # <<>> =>
                   /\ q[1] \in Paths
                   /\ \A q2 \in GuardCallsNow(q[1]) : q2 = <<>>

\* A guard has redirected and every guard at the new location allows.
C2_Witness ==
    /\ navBy \in Guards
    /\ status = "authenticated"
    /\ \A q \in GuardCallsNow(path) : q = <<>>

(* C3: with status unauthenticated, every redirect a guard issues from a    *)
(* path under the student or employer section goes to the home page "/".    *)
C3_UnauthenticatedSectionToHome ==
    [][(status = "unauthenticated" /\ path \in SectionPaths /\ GuardStep)
          => path' = HomePath]_vars

(* C4: with status authenticated, every guard sends a student on an         *)
(* employer path to "/student" and an employer on a student path to         *)
(* "/employer", and no guard redirects to the dashboard root of a role the  *)
(* user does not hold.                                                      *)
C4_WrongSectionToOwnDashboard ==
    /\ (status = "authenticated" /\ role = "student") =>
          \A p \in EmployerPaths :
             \A q \in GuardCallsNow(p) : q = <<"/student">>
    /\ (status = "authenticated" /\ role = "employer") =>
          \A p \in StudentPaths :
             \A q \in GuardCallsNow(p) : q = <<"/employer">>
    /\ \A p \in Paths :
          \A q \in GuardCallsNow(p) :
             \A i \in 1..Len(q) :
                /\ q[i] = "/student" => role = "student"
                /\ q[i] = "/employer" => role = "employer"

\* The student layout has sent an employer to the employer dashboard root.
C4_Witness ==
    /\ navBy = "StudentLayout"
    /\ path = "/employer"
    /\ status = "authenticated"
    /\ role = "employer"


(* C5: with status authenticated, on a login page the root guard redirects  *)
(* to the dashboard root of the role in the session user's metadata, or to  *)
(* the home page when there is none, and every redirect a guard issues      *)
(* from a login page goes there; this includes the state right after a      *)
(* successful sign-in submitted on that login page. The redirect does       *)
(* happen: an authenticated user on a login page is taken off it, unless    *)
(* the session ends first.                                                  *)
C5_AuthenticatedLeavesLogin ==
    /\ [](status = "authenticated" =>
             \A p \in LoginPaths :
                RouteGuard(status, role, p) = <<DashboardOf(UserRoleOf(user))>>)
    /\ [][(status = "authenticated" /\ path \in LoginPaths /\ GuardStep)
             => path' = DashboardOf(UserRoleOf(user))]_vars
    /\ (status = "authenticated" /\ path \in LoginPaths)
          ~> (path \notin LoginPaths \/ status # "authenticated")

\* A sign-in submitted on the current login page has succeeded, its
\* SIGNED_IN event has been handled, and the guard is due to redirect.
C5_Witness ==
    /\ path \in LoginPaths
    /\ status = "authenticated"
    /\ \E c \in calls :
          c.kind = "signIn" /\ c.phase = "ok" /\ c.origin = path
    /\ RouteGuard(status, role, path) # <<>>

(* C6: while the resolver is loading no guard issues a redirect at any      *)
(* path and the layouts and the root guard show their loading affordance;   *)
(* every redirect a guard issues happens in a state where loading is false. *)
C6_NoRedirectWhileLoading ==
    /\ [](loading =>
             /\ status = "loading"
             /\ \A p \in Paths : \A q \in GuardCallsNow(p) : q = <<>>
             /\ EmployerLayoutView(status, role, loading) = "Loading..."
             /\ StudentLayoutView(status, role, loading) = "Loading..."
             /\ RouteGuardView(status) = "Loading...")
    /\ [][GuardStep => ~loading]_vars

\* A student's session is held on an employer path while a call has set
\* loading: the wrong-role redirect is withheld.
C6_Witness ==
    /\ loading
    /\ path \in EmployerPaths
    /\ RoleOf(user) = "student"
    /\ calls # {}

(* C7 (as claimed): status is loading in every state in which the initial   *)
(* session fetch has neither resolved nor failed.                           *)
C7_LoadingUntilFetchCompletes ==
    initPc = "pending" => status = "loading"

(* C7 (amended): status is loading in every state in which the initial      *)
(* session fetch has neither resolved nor failed and the listener has not   *)
(* yet handled a session-change event.                                      *)
C7_LoadingUntilFetchOrEvent ==
    (initPc = "pending" /\ ~listened) => status = "loading"

\* An event is waiting for the listener while the fetch is still pending.
C7_Witness ==
    /\ initPc = "pending"
    /\ ~listened
    /\ events # <<>>
    /\ path # HomePath
    /\ status = "loading"

(* C8 (as claimed): once the initial session fetch has resolved, status is  *)
(* unauthenticated if the resolver holds no session and authenticated if    *)
(* it holds one.                                                            *)
C8_StatusFollowsSession ==
    initPc = "resolved" =>
       status = (IF session = NoSession THEN "unauthenticated"
                 ELSE "authenticated")

(* C8 (amended): once the initial session fetch has resolved or failed,     *)
(* whenever no sign-in, sign-up or sign-out call is in flight, status is    *)
(* unauthenticated if the resolver holds no session and authenticated if    *)
(* it holds one.                                                            *)
C8_StatusFollowsSessionWhenIdle ==
    (initPc # "pending" /\ calls = {}) =>
       status = (IF session = NoSession THEN "unauthenticated"
                 ELSE "authenticated")

\* A sign-in has failed and returned: no call in flight, an error recorded.
C8_Witness ==
    /\ initPc = "resolved"
    /\ calls = {}
    /\ error \in {"Invalid login credentials", "Sign in failed"}
    /\ status = "unauthenticated"

(* C9: the resolver's role is determined by the session it holds: it is the *)
(* role stored in the backend at sign-up for the session's user, null when  *)
(* there is no session or the user has no role metadata, whichever login    *)
(* page the sign-in was submitted on.                                       *)
C9_RoleFromSignupMetadata ==
    /\ session = NoSession => role = Null
    /\ session # NoSession =>
          LET stored == users[session[1].user.email] IN
             role = (IF stored \in {"student", "employer"} THEN stored
                     ELSE Null)

\* An account signed up as employer has signed in on the student login page
\* and the resolver reports it as an employer.
C9_Witness ==
    /\ users["new@x"] = "employer"
    /\ \E c \in calls :
          /\ c.kind = "signIn"
          /\ c.phase = "ok"
          /\ c.origin = StudentLogin
          /\ c.email = "new@x"
    /\ session = SessionOf("new@x", "employer")
    /\ status = "authenticated"
    /\ role = "employer"

(* C10: from the initial loading state, when the listener handles a         *)
(* SIGNED_IN event carrying a session and then a SIGNED_OUT event carrying  *)
(* none, and nothing else drives the resolver, the statuses observed are    *)
(* loading, then authenticated, then unauthenticated.                       *)
C10_StreamSignedInThenOut ==
    scenario.live =>
       /\ Len(scenario.seen) \in 1..3
       /\ \A i \in 1..Len(scenario.seen) :
             scenario.seen[i]
                = <<"loading", "authenticated", "unauthenticated">>[i]
       /\ status = Last(scenario.seen)

\* Both events of the stream have been handled.
C10_Witness ==
    /\ scenario.live
    /\ Len(scenario.seen) = 3

----------------------------------------------------------------------------
(* C11: whenever the listener handles a SIGNED_IN or SIGNED_OUT event, the  *)
(* stored error is null right after the step, whatever it was before.       *)
C11_ErrorClearedOnSignInOut ==
    [][ ( /\ events # <<>>
          /\ events' = Tail(events)
          /\ Head(events).event \in {"SIGNED_IN", "SIGNED_OUT"} )
        => error' = Null ]_vars

\* The initial fetch threw and left an error; nobody has navigated, so no
\* handler has run; the listener has since handled an event and the error
\* is gone.
C11_Witness ==
    /\ initPc = "failed"
    /\ listened
    /\ navBy = "none"
    /\ events = <<>>
    /\ error = Null

----------------------------------------------------------------------------
(* C12: the step in which the initial session fetch fails, by throwing or   *)
(* by reporting an error in its result, ends with loading false and a       *)
(* non-empty error string recorded; the fetch is never issued again.        *)
C12_InitFailureRecorded ==
    [][ /\ (initPc = "pending" /\ initPc' \in {"failed", "reported"})
            => (~loading' /\ error' \notin {Null, ""})
        /\ initPc # "pending" => initPc' = initPc ]_vars

----------------------------------------------------------------------------
(* Helpers of the submission properties.                                    *)

\* The app of instance i is killed in the step.
Killed(i) == InFlight(i) /\ detail'[i] = DetailOff

\* The n-th call of instance i ends with the step.
CallEnded(i, n) ==
    /\ ~Killed(i)
    /\ detail'[i].applies \in {Without(detail[i].applies, n),
                               Orphaned(Without(detail[i].applies, n))}

\* The n-th call of instance i takes a step.
applyStep(i, n) ==
    \/ CallEnded(i, n)
    \/ /\ Len(detail'[i].applies) = Len(detail[i].applies)
       /\ detail'[i].applies[n].pc # detail[i].applies[n].pc

\* The calls of instance i.
CallsOf(i) == 1..Len(detail[i].applies)

Duplicated == \E job \in Jobs : Cardinality(ApplicationsOf(job, Student)) > 1

----------------------------------------------------------------------------
(* C13: a submission that reaches the existence check while an application  *)
(* for its (job, student) pair is persisted ends there with the 'already    *)
(* applied' error and inserts nothing; every insert adds exactly one row,   *)
(* with status submitted; and as long as no two submissions have been in    *)
(* flight at once, no pair has more than one application.                   *)
C13_RejectedWhenAlreadyApplied ==
    /\ [](~overlapped => ~Duplicated)
    /\ [][ /\ \A i \in Instances : \A n \in CallsOf(i) :
               ( /\ detail[i].applies[n].pc = "checkApplied"
                 /\ ApplicationsOf(detail[i].applies[n].job, Student) # {}
                 /\ applyStep(i, n) )
               => /\ CallEnded(i, n)
                  /\ detail[i].applies[n].live =>
                        detail'[i].error =
                           "You have already applied for this position"
                  /\ applications' = applications
           /\ applications' # applications =>
                 \E i \in Instances : \E n \in CallsOf(i) :
                    /\ detail[i].applies[n].pc = "insert"
                    /\ applications' =
                          Append(applications,
                                 ApplicationRow(detail[i].applies[n].job,
                                                Student, "submitted")) ]_vars

----------------------------------------------------------------------------
(* C14: two applications for the same (job, student) pair arise only when   *)
(* two submissions were in flight at once or a submission passed a check    *)
(* whose read failed; the backend accepts the second insert.                *)
C14_DuplicatesOnlyFromARace ==
    Duplicated => (overlapped \/ blindCheck)

\* Two submissions of the student for one job overlapped, both read the
\* table in their check, both inserted: two rows for the pair.
C14_Witness ==
    /\ Duplicated
    /\ overlapped
    /\ ~blindCheck

----------------------------------------------------------------------------
(* Helpers of the status-update properties.                                 *)

\* A status update has settled.
Settled == lastUpdate.report # Null

----------------------------------------------------------------------------
(* C15: the status update settled last affected no row when its caller does *)
(* not own the job's company, and whenever it came back without an error    *)
(* and with no row affected, the screen that issued it reported a           *)
(* permission error, on both employer screens.                              *)
C15_ZeroRowsIsPermissionError ==
    Settled =>
       /\ lastUpdate.caller # Owner => lastUpdate.rows = 0
       /\ (lastUpdate.report # "error" /\ lastUpdate.rows = 0)
             => lastUpdate.report = "permission"

----------------------------------------------------------------------------
(* C16: every row is inserted with status submitted, rows are never removed *)
(* and keep their job and student, and a row whose status is accepted or    *)
(* rejected never has status submitted again; it may still change between   *)
(* accepted and rejected.                                                   *)
C16_NeverBackToSubmitted ==
    [][ /\ Len(applications') >= Len(applications)
        /\ \A k \in 1..Len(applications') :
              IF k > Len(applications)
              THEN applications'[k].status = "submitted"
              ELSE /\ applications'[k].job_id = applications[k].job_id
                   /\ applications'[k].student_user_id =
                         applications[k].student_user_id
                   /\ applications[k].status # "submitted"
                         => applications'[k].status \in Decisions ]_vars

\* The owner switched a decided application to the other decision.
C16_Witness ==
    /\ Settled
    /\ lastUpdate.rows = 1
    /\ lastUpdate.was \in Decisions
    /\ lastUpdate.status # lastUpdate.was
    /\ applications[lastUpdate.id].status = lastUpdate.status

----------------------------------------------------------------------------
(* C17: at most one row of the companies table has the employer as its      *)
(* owner, whatever saves the company-setup screen and the employer profile  *)
(* screen have made.                                                        *)
C17_OneCompanyPerEmployer ==
    Cardinality(CompaniesOf(Owner)) <= 1

----------------------------------------------------------------------------
(* C18: when the outcome of a list query arrives after the cancellation     *)
(* signal has fired, the step that handles it leaves the list held by the   *)
(* hook as it was and records no error.                                     *)
C18_AbortedFetchIsNoOp ==
    [][ \A n \in 1..Len(fetch.loads) :
           ( /\ fetch.loads[n].pc = "query"
             /\ fetch.loads[n].live
             /\ aborted
             /\ fetch'.mounted
             /\ fetch'.loads = Without(fetch.loads, n) )
           => /\ fetch'.applications = fetch.applications
              /\ fetch'.error = fetch.error ]_vars

----------------------------------------------------------------------------
(* C19: a submission is past its profile step only when the student has a   *)
(* profile row, and an application is inserted only then; the profile       *)
(* insert and the application insert never happen in one step; a failed     *)
(* profile insert ends the submission with 'Failed to create user profile'  *)
(* and no application inserted.                                             *)
C19_ProfileBeforeApplication ==
    /\ [](\A i \in Instances : \A n \in CallsOf(i) :
            detail[i].applies[n].pc \in {"checkApplied", "insert"}
               => Student \in profiles)
    /\ [][ /\ applications' # applications
               => (Student \in profiles /\ profiles' = profiles)
           /\ \A i \in Instances : \A n \in CallsOf(i) :
                 ( /\ detail[i].applies[n].pc = "profileInsert"
                   /\ applyStep(i, n)
                   /\ profiles' = profiles )
                 => /\ CallEnded(i, n)
                    /\ detail[i].applies[n].live =>
                          detail'[i].error = "Failed to create user profile"
                    /\ applications' = applications ]_vars

\* The submission created the profile and was interrupted before its
\* application insert: a profile without the application.
C19_Witness ==
    /\ Student \in profiles
    /\ applications = <<>>
    /\ \A i \in Instances : detail[i] = DetailOff

----------------------------------------------------------------------------
(* C20: a status update that comes back without an error affects its row    *)
(* whenever the policy lets the caller update it, whatever the row's        *)
(* status is at that moment, and the row then carries the status of the     *)
(* update settled last.                                                     *)
C20_LastWriteWins ==
    (Settled /\ lastUpdate.report # "error"
             /\ MayUpdate(lastUpdate.caller, lastUpdate.id))
       => /\ lastUpdate.rows = 1
          /\ applications[lastUpdate.id].status = lastUpdate.status

\* An update issued on the screen that offers its buttons only for
\* applications listed as submitted, so concurrently with another update or
\* from a stale view, has overwritten an earlier decision.
C20_Witness ==
    /\ Settled
    /\ lastUpdate.screen = "applications"
    /\ lastUpdate.rows = 1
    /\ lastUpdate.was \in Decisions
    /\ lastUpdate.status # lastUpdate.was
    /\ applications[lastUpdate.id].status = lastUpdate.status



----------------------------------------------------------------------------
(* Claims about the auth actions and the resolver's teardown.               *)

\* The call c of this state has returned with the step (BackendOk only
\* changes its phase).
Returned(c) == \A d \in calls' : d.id # c.id

\* C24: when signIn, signUp or signOut fails, a message is stored in the
\* resolver's error, the session is as it was, loading is false afterwards
\* and the caller, to whom the error is rethrown, does not navigate; and
\* each of these actions clears the previous error when it starts.
C24_FailedAuthAction ==
    [][ /\ \A c \in calls :
             (c.phase = "sent" /\ Returned(c)) =>
                /\ error' # Null
                /\ session' = session
                /\ loading' = FALSE
                /\ path' = path
        /\ (\E d \in calls' : \A c \in calls : c.id # d.id) =>
                error' = Null ]_vars

\* A sign-out has failed: its message is stored and the session is kept.
C24_Witness ==
    /\ error = "Sign out failed"
    /\ session # NoSession
    /\ ~loading
    /\ calls = {}


\* C25: after the resolver is torn down, neither a late result of the
\* initial session fetch nor the delivery of a session-change event modifies
\* its session, loading or error, and with the subscription cancelled no
\* further event is handed to its callback.
C25_NothingAfterTeardown ==
    [][ ~mounted =>
          /\ (initPc' # initPc \/ Len(events') < Len(events)) =>
                 UNCHANGED <<session, loading, error>>
          /\ Len(events') <= Len(events) ]_vars

\* After the teardown the session fetch has resolved with a stored session
\* and a pending event has been delivered, and the resolver is as it started.
C25_Witness ==
    /\ ~mounted
    /\ initPc = "resolved"
    /\ backendSession # NoSession
    /\ listened
    /\ events = <<>>
    /\ session = NoSession
    /\ loading


\* The pages whose sign-out handler redirects to the home page.
ProfilePages == SignOutPages \ {HomePath}

\* Nobody has signed in again: the backend holds no session, and no event
\* that carries a session or reports the end of another one is on its way
\* to the resolver.
StillSignedOut ==
    /\ backendSession = NoSession
    /\ \A k \in 1..Len(events) : /\ events[k].session = NoSession
                                  /\ events[k].event # "SIGNED_OUT"

\* Within the bounds nobody signs in again before a sign-out has returned.
SignOutReturnsSignedOut ==
    [][ \A c \in calls :
          (c.kind = "signOut" /\ c.phase = "ok" /\ Returned(c)) =>
             StillSignedOut ]_vars

\* C23: a sign-out started from a profile screen that succeeds leaves the
\* app on the home page by the handler's redirect, whether the section
\* layout's redirect to the login page ran before it or had not run yet,
\* and the resolver is unauthenticated by then unless somebody has signed
\* in again; and no guard moves an unauthenticated user on from the home
\* page, only the user does.
C23_SignOutSettlesHome ==
    /\ [][ \A c \in calls :
             ( /\ c.kind = "signOut" /\ c.origin \in ProfilePages
               /\ c.phase = "ok" /\ Returned(c) ) =>
                  /\ path' = HomePath
                  /\ navBy' = "handleSignOut"
                  /\ StillSignedOut =>
                        StatusOf(loading', session') = "unauthenticated"
       ]_vars
    /\ []( (path = HomePath /\ status = "unauthenticated") =>
              \A q \in GuardCallsNow(HomePath) : q = <<>> )

\* The layout's redirect to the login page has run while the handler still
\* waits for signOut() to return.
C23_Witness ==
    /\ path = EmployerLogin
    /\ navBy = "EmployerLayout"
    /\ status = "unauthenticated"
    /\ \E c \in calls : /\ c.kind = "signOut"
                        /\ c.phase = "ok"
                        /\ c.origin = "/employer/profile"


----------------------------------------------------------------------------
(* Claims about the job detail screen.                                      *)

\* C30: on the job detail screen a submission starts only from the screen
\* the student sees, with a null loaded application status and the form
\* already shown; with a status loaded a press changes nothing; the press
\* that opens the form starts no submission; a successful submission sends
\* the student to the student dashboard, whether its screen is still shown,
\* was covered by the dashboard or has been left, and hides and clears the
\* form of a screen that is still there; a failed one navigates nowhere,
\* leaves the form shown with its contents and, on a screen that is still
\* there, stores its message.
C30_SubmitOnlyFromOpenForm ==
    [][ \A i \in Instances :
          /\ Len(detail'[i].applies) > Len(detail[i].applies) =>
                /\ OnTop(i)
                /\ detail[i].applicationStatus = Null
                /\ detail[i].showApplicationForm
          /\ (detail[i].mounted /\ detail[i].applicationStatus # Null) =>
                /\ Len(detail'[i].applies) <= Len(detail[i].applies)
                /\ detail'[i].showApplicationForm
                      = detail[i].showApplicationForm
          /\ (~detail[i].showApplicationForm
                 /\ detail'[i].showApplicationForm) =>
                /\ detail'[i].applies = detail[i].applies
                /\ applications' = applications
          /\ \A n \in CallsOf(i) :
                CallEnded(i, n) =>
                   IF applications' # applications
                   THEN /\ detail[i].applies[n].pc = "insert"
                        /\ detail'[i].sentTo = "/student"
                        /\ detail'[i].sentBy = "handleApply"
                        /\ detail[i].applies[n].live =>
                              /\ ~detail'[i].showApplicationForm
                              /\ detail'[i].applicationNote = ""
                   ELSE /\ detail[i].applies[n].live =>
                              detail'[i].error # Null
                        /\ detail'[i].sentTo = detail[i].sentTo
                        /\ detail'[i].sentBy = detail[i].sentBy
                        /\ detail'[i].mounted = detail[i].mounted
                        /\ detail'[i].showApplicationForm
                              = detail[i].showApplicationForm
                        /\ detail'[i].applicationNote
                              = detail[i].applicationNote
      ]_vars

\* One submission has succeeded and sent the student to the dashboard, and
\* another has failed on a screen the student had covered with the
\* dashboard by its Back button: its form is as it was, with the note and
\* the message, and the dashboard is still the one Back has pushed.
C30_Witness ==
    \E i, j \in Instances :
        /\ detail[i].sentTo = "/student"
        /\ detail[i].sentBy = "handleApply"
        /\ ~detail[i].mounted
        /\ detail[j].mounted
        /\ detail[j].sentBy = "Back"
        /\ detail[j].applies = <<>>
        /\ detail[j].error # Null
        /\ detail[j].showApplicationForm
        /\ detail[j].applicationNote # ""


----------------------------------------------------------------------------
(* Claims about the data hooks.                                             *)

\* C22: the loading flag of every hook that has started, or skipped, its
\* backend read eventually becomes false (or the hook's view is left).
C22_LoadingEnds ==
    /\ check.mounted ~> (~check.loading \/ ~check.mounted)
    /\ profileHook.mounted ~> (~profileHook.loading \/ ~profileHook.mounted)

\* C26: in useProfile the held profile is null or belongs to the user the
\* hook sees, and is null when it sees none.
C26_ProfileOfCurrentUser ==
    (profileHook.mounted /\ profileHook.seen = IdOf(user)) =>
        profileHook.profile \in {Null, IdOf(user)}


----------------------------------------------------------------------------
(* Claims about the employer's list screens.                                *)

\* A loadApplications or updateApplicationStatus call of the open screen
\* ends with the step.
HandlerEnds ==
    /\ listScreen.kind # Null
    /\ listScreen'.kind # Null
    /\ \/ \E n \in 1..Len(listScreen.updates) :
             /\ listScreen.updates[n].live
             /\ listScreen'.updates = Without(listScreen.updates, n)
       \/ \E n \in 1..Len(listScreen.loads) :
             /\ listScreen.loads[n].live
             /\ listScreen'.loads = Without(listScreen.loads, n)

\* C21: whenever a backend call of a list screen has failed, the handler
\* ends with a message in the screen's error state.
C21_FailuresAreRecorded ==
    [][ (HandlerEnds /\ listScreen'.logged = "Error") =>
            listScreen'.error # Null ]_vars

\* The updates in flight that the open screen started.
LiveUpdates ==
    {n \in 1..Len(listScreen.updates) : listScreen.updates[n].live}

\* C27: of the updates started by the job applicants screen that is open at
\* most one is in flight, the pending marker names it and is null when none
\* is; the list shown is not edited when an update comes back, and a
\* successful update is followed by a reload whose rows are those of the
\* backend.
C27_OneUpdateAtATime ==
    /\ [](listScreen.kind = "applicants" =>
            /\ Cardinality(LiveUpdates) <= 1
            /\ (LiveUpdates = {}) = (listScreen.updatingStatus = NoId)
            /\ \A n \in LiveUpdates :
                  listScreen.updates[n].id = listScreen.updatingStatus)
    /\ [][ (listScreen.kind = "applicants" /\ listScreen'.kind = "applicants")
           => \A n \in LiveUpdates :
                /\ ( /\ listScreen.updates[n].pc = "update"
                     /\ listScreen'.updates \in
                           { Without(listScreen.updates, n),
                             [listScreen.updates EXCEPT
                                ![n].pc = "reload"] } ) =>
                      /\ listScreen'.applications = listScreen.applications
                      /\ applications' # applications =>
                            listScreen'.updates =
                               [listScreen.updates EXCEPT ![n].pc = "reload"]
                /\ ( /\ listScreen.updates[n].pc = "reload"
                     /\ listScreen'.updates = Without(listScreen.updates, n)
                     /\ listScreen'.applications # listScreen.applications ) =>
                      listScreen'.applications = Listed("applicants") ]_vars

\* An update made from the applicants screen has succeeded and the list has
\* been reloaded: it shows the decided row and no marker is left.
C27_Witness ==
    /\ listScreen.kind = "applicants"
    /\ listScreen.logged = "Success"
    /\ listScreen.updates = <<>>
    /\ listScreen.updatingStatus = NoId
    /\ listScreen.applications = Listed("applicants")
    /\ \E n \in 1..Len(listScreen.applications) :
          listScreen.applications[n].status \in Decisions


----------------------------------------------------------------------------
(* Claims about NewJobScreen.                                               *)

\* C28: the company id the new-job screen holds, sends to createJob and
\* leaves in a created job is one the backend returned for a company of the
\* current user; when the company query finds no company or fails, no
\* company id is set and the employer is sent to company setup.
C28_JobOnlyForOwnCompany ==
    /\ [](/\ newJob.companyId \in {Null} \cup OwnedCompanyIds
          /\ \A n \in 1..Len(newJob.posts) :
                newJob.posts[n].jobData.company_id \in OwnedCompanyIds
          /\ \A j \in 1..Len(jobs) : jobs[j].company_id \in OwnedCompanyIds)
    /\ [][ ( /\ newJob.loadPc = "query"
             /\ newJob'.loadPc = "idle"
             /\ newJob'.companyId \notin OwnedCompanyIds ) =>
               /\ newJob'.companyId = Null
               /\ newJob'.sentTo = "/employer/company-setup" ]_vars

\* The fields of the job form.
FormOf(nj) ==
    <<nj.title, nj.description, nj.isPaid, nj.stipendAmount, nj.selectedTags,
      nj.selectedImages>>

\* The rows of the jobs table without their images.
JobRows(t) == [j \in 1..Len(t) |-> <<t[j].company_id, t[j].title>>]

\* The n-th call of handleSubmit ends with the step.
PostEnds(n) == newJob'.posts = Without(newJob.posts, n)

\* What the end of a handleSubmit call that created a job leaves: the
\* router sent to the dashboard, and the form reset when the screen that
\* made the call is still the one open (the setters of a screen that is
\* gone do nothing).
ResetAndGone(n) ==
    /\ newJob'.sentTo = "/employer"
    /\ FormOf(newJob') = IF newJob.posts[n].live THEN FormOf(NewJobOff)
                         ELSE FormOf(newJob)

\* C29: posting a job goes validate, create job, upload images, reset form
\* and navigate to the employer dashboard. createJob is called only with a
\* valid form; when it fails no upload starts, the form is kept and nothing
\* navigates; images are uploaded only for a created job; and when the
\* upload ends, failed or not, the job is kept, the form is reset and the
\* app navigates to the dashboard; nothing else navigates there.
C29_PostingOrder ==
    [][ /\ Len(newJob'.posts) > Len(newJob.posts) =>
              /\ validateForm(newJob) = {}
              /\ newJob'.posts[Len(newJob'.posts)].pc = "create"
              /\ jobs' = jobs
        /\ \A n \in 1..Len(newJob.posts) :
              /\ ( /\ newJob.posts[n].pc = "create"
                   /\ PostEnds(n)
                   /\ jobs' = jobs ) =>
                    /\ FormOf(newJob') = FormOf(newJob)
                    /\ newJob'.sentTo = newJob.sentTo
              /\ ( /\ newJob.posts[n].pc = "create"
                   /\ jobs' # jobs
                   /\ \/ PostEnds(n)
                      \/ /\ Len(newJob'.posts) = Len(newJob.posts)
                         /\ newJob'.posts[n].pc # "create" ) =>
                    /\ Len(jobs') = Len(jobs) + 1
                    /\ IF newJob.posts[n].images > 0
                       THEN /\ newJob'.posts[n].pc = "files"
                            /\ newJob'.posts[n].job = Len(jobs')
                            /\ FormOf(newJob') = FormOf(newJob)
                            /\ newJob'.sentTo = newJob.sentTo
                       ELSE /\ PostEnds(n)
                            /\ ResetAndGone(n)
              /\ ( /\ newJob.posts[n].pc \in {"files", "upload"}
                   /\ PostEnds(n) ) =>
                    /\ JobRows(jobs') = JobRows(jobs)
                    /\ ResetAndGone(n)
        /\ \A n \in 1..Len(newJob'.posts) :
              newJob'.posts[n].pc \in {"files", "upload"} =>
                 newJob'.posts[n].job \in 1..Len(jobs')
        /\ (newJob.sentTo # "/employer" /\ newJob'.sentTo = "/employer") =>
              \E n \in 1..Len(newJob.posts) :
                 /\ PostEnds(n)
                 /\ IF newJob.posts[n].pc = "create"
                    THEN Len(jobs') = Len(jobs) + 1
                    ELSE newJob.posts[n].job \in 1..Len(jobs')
                 /\ newJob.posts[n].live => newJob'.job \in 1..Len(jobs') ]_vars

\* A job was created, the upload of its image failed, and the screen has
\* reset the form and navigated to the dashboard all the same.
C29_Witness ==
    /\ newJob.logged = "Image upload failed"
    /\ newJob.sentTo = "/employer"
    /\ newJob.job \in 1..Len(jobs)
    /\ jobs[newJob.job].images = 0
    /\ FormOf(newJob) = FormOf(NewJobOff)

=============================================================================
